---- MODULE Spec2Model ----
(***************************************************************************)
(* Model of the document pipeline (src/src/pipelines/document_pipeline.py) *)
(* and of the vector store manager (src/src/services/vector_database.py).  *)
(*                                                                         *)
(* File names, paths and texts are sequences of one-character strings, so  *)
(* that str.replace, the `in` substring test, os.path.splitext and         *)
(* str.lower are computed character by character as Python computes them.  *)
(***************************************************************************)
EXTENDS Integers, Sequences, FiniteSets, TLC

(***************************************************************************)
(* Bounds of the model.                                                    *)
(***************************************************************************)
\* number of handle_uploaded_file calls in a behaviour
MaxUploads == 2
\* number of direct add_documents calls in a behaviour (test_complete_rag.py)
MaxAdds == 2

\* F(v), the value v computed once (a local variable of the code)
With(v, F(_)) == CHOOSE r \in {F(x) : x \in {v}} : TRUE

(***************************************************************************)
(* Python string operations on character sequences.                        *)
(***************************************************************************)
\* str.lower on one character (the upper-case letters the inputs use)
LowerChar(c) ==
    CASE c = "A" -> "a"
      [] c = "P" -> "p"
      [] c = "D" -> "d"
      [] c = "F" -> "f"
      [] OTHER -> c

\* str.lower
Lower(s) == [i \in 1..Len(s) |-> LowerChar(s[i])]

\* s[i:].startswith(m), i counted from 1
StartsAt(s, m, i) ==
    /\ i + Len(m) - 1 <= Len(s)
    /\ \A k \in 1..Len(m) : s[i + k - 1] = m[k]

\* `a in b` for two str: a is a contiguous substring of b
IsSubstr(a, b) == \E i \in 1..(Len(b) + 1) : StartsAt(b, a, i)

RECURSIVE ReplaceFrom(_, _, _)
\* str.replace(m, "") from position i on: leftmost non-overlapping matches
ReplaceFrom(s, m, i) ==
    IF i > Len(s) THEN <<>>
    ELSE IF StartsAt(s, m, i) THEN ReplaceFrom(s, m, i + Len(m))
    ELSE <<s[i]>> \o ReplaceFrom(s, m, i + 1)

\* s.replace(m, "") for a non-empty m
Remove(s, m) == ReplaceFrom(s, m, 1)

RECURSIVE LStrip(_)
LStrip(s) == IF s # <<>> /\ Head(s) = " " THEN LStrip(Tail(s)) ELSE s

RECURSIVE RStrip(_)
RStrip(s) ==
    IF s # <<>> /\ s[Len(s)] = " " THEN RStrip(SubSeq(s, 1, Len(s) - 1)) ELSE s

\* str.strip()
Strip(s) == RStrip(LStrip(s))

\* index of the last character of s equal to c, 0 when there is none
LastIndexOf(s, c) ==
    LET I == {i \in 1..Len(s) : s[i] = c}
    IN  IF I = {} THEN 0 ELSE CHOOSE i \in I : \A j \in I : j <= i

\* os.path.basename: what follows the last "/"
Basename(p) == SubSeq(p, LastIndexOf(p, "/") + 1, Len(p))

\* os.path.splitext: <<root, ext>>; the extension starts at the last dot of
\* the base name unless only dots precede it there
Splitext(p) ==
    LET sep == LastIndexOf(p, "/")
        dot == LastIndexOf(p, ".")
    IN  IF dot > sep /\ \E k \in (sep + 1)..(dot - 1) : p[k] # "."
        THEN <<SubSeq(p, 1, dot - 1), SubSeq(p, dot, Len(p))>>
        ELSE <<p, <<>>>>

\* os.path.normpath on the paths of the model: repeated "/" collapse and a
\* trailing "/" is dropped (no "." or ".." component occurs in the inputs)
RECURSIVE NormFrom(_, _)
NormFrom(p, i) ==
    IF i > Len(p) THEN <<>>
    ELSE IF p[i] = "/" /\ i < Len(p) /\ p[i + 1] = "/" THEN NormFrom(p, i + 1)
    ELSE IF p[i] = "/" /\ i = Len(p) /\ i > 1 THEN <<>>
    ELSE <<p[i]>> \o NormFrom(p, i + 1)

Normpath(p) == NormFrom(p, 1)

(***************************************************************************)
(* A text (the content of a chunk) is kept run-length encoded: a sequence  *)
(* of runs <<c, n>>, n >= 1 copies of the character c, adjacent runs       *)
(* having different characters, so that equal texts are equal values.      *)
(***************************************************************************)
RECURSIVE TextLen(_)
\* len(text)
TextLen(t) == IF t = <<>> THEN 0 ELSE Head(t)[2] + TextLen(Tail(t))

RECURSIVE TextPrefix(_, _)
\* text[:n]
TextPrefix(t, n) ==
    IF t = <<>> \/ n <= 0 THEN <<>>
    ELSE IF Head(t)[2] >= n THEN <<<<Head(t)[1], n>>>>
    ELSE <<Head(t)>> \o TextPrefix(Tail(t), n - Head(t)[2])

(***************************************************************************)
(* Vector store manager: ChromaDBManager.                                  *)
(***************************************************************************)
\* text[:100] in _generate_doc_id
IdPrefixLen == 100
\* default batch_size of add_documents
DefaultBatchSize == 100

\* hashlib.md5(...).hexdigest(): a deterministic digest, taken collision free
Md5(s) == <<"md5", s>>

\* _generate_doc_id: md5 of f"{source}_{chunk_index}_{text[:100]}", the
\* formatted string kept as its three parts
GenerateDocId(text, source, chunk_index) ==
    Md5([source |-> source, chunk_index |-> chunk_index,
         prefix |-> TextPrefix(text, IdPrefixLen)])

\* the path _extract_metadata starts from: metadata['source'] or 'unknown'
SourceOf(document) ==
    IF "source" \in DOMAIN document.metadata
    THEN document.metadata.source
    ELSE <<"u", "n", "k", "n", "o", "w", "n">>

\* _extract_metadata at time now
ExtractMetadata(document, now) ==
    LET source == Normpath(SourceOf(document))
    IN  [ indexed_at       |-> now,
          text_length      |-> TextLen(document.page_content),
          source           |-> source,
          source_filename  |-> Basename(source),
          source_extension |-> Splitext(source)[2] ]

\* the ids of the records of a collection
IdsOf(coll) == {r.id : r \in coll}

\* the stored records of a source: collection.get(where={"source": source})
RecordsOfSource(coll, source) == {r \in coll : r.metadata.source = source}

\* the record add_documents builds for the document at 0-based position idx of
\* the call's list
RecordOf(document, embedding, idx, now) ==
    LET metadata == ExtractMetadata(document, now)
    IN  [ id        |-> GenerateDocId(document.page_content, metadata.source, idx),
          document  |-> document.page_content,
          embedding |-> embedding,
          metadata  |-> metadata ]

\* chromadb Collection.add of a batch of records. Ids repeated inside the
\* batch are an error. A record whose id is already stored is never
\* overwritten: depending on the chromadb release the call skips it
\* (mode "ignore") or raises and stores nothing (mode "raise").
CollectionAdd(coll, recs, mode) ==
    LET ids == {recs[k].id : k \in 1..Len(recs)}
    IN  IF Cardinality(ids) # Len(recs)
        THEN [ok |-> FALSE, coll |-> coll]
        ELSE IF mode = "raise" /\ ids \cap IdsOf(coll) # {}
        THEN [ok |-> FALSE, coll |-> coll]
        ELSE [ok |-> TRUE,
              coll |-> coll \cup {recs[k] : k \in {j \in 1..Len(recs) :
                                                    recs[j].id \notin IdsOf(coll)}}]

RECURSIVE AddBatches(_, _, _, _, _, _, _, _)
\* the batch loop of add_documents from 0-based offset i on; failBatch is the
\* 1-based number of the batch whose collection.add the backend fails
\* (0: none). Result: the collection, whether the loop completed, total_added.
AddBatches(coll, documents, embeddings, i, batch_size, now, mode, failBatch) ==
    IF i >= Len(documents) THEN [coll |-> coll, ok |-> TRUE, added |-> 0]
    ELSE
      LET hi   == IF i + batch_size < Len(documents) THEN i + batch_size
                                                      ELSE Len(documents)
          recs == [j \in 1..(hi - i) |->
                     RecordOf(documents[i + j], embeddings[i + j], i + j - 1, now)]
          res  == IF failBatch = (i \div batch_size) + 1
                  THEN [ok |-> FALSE, coll |-> coll]
                  ELSE CollectionAdd(coll, recs, mode)
      IN  IF ~res.ok THEN [coll |-> coll, ok |-> FALSE, added |-> 0]
          ELSE LET rest == AddBatches(res.coll, documents, embeddings, hi,
                                      batch_size, now, mode, failBatch)
               IN  [coll |-> rest.coll, ok |-> rest.ok,
                    added |-> IF rest.ok THEN (hi - i) + rest.added ELSE 0]

\* add_documents that removes the batches it wrote when a later one fails
AddDocumentsRollingBack(coll, documents, embeddings, batch_size, now, mode, failBatch) ==
    IF documents = <<>> \/ embeddings = <<>>
    THEN [outcome |-> "returned", added |-> 0, coll |-> coll]
    ELSE IF Len(documents) # Len(embeddings)
    THEN [outcome |-> "raised", added |-> 0, coll |-> coll]
    ELSE LET r == AddBatches(coll, documents, embeddings, 0, batch_size, now,
                             mode, failBatch)
         IN  [outcome |-> IF r.ok THEN "returned" ELSE "raised",
              added |-> r.added, coll |-> IF r.ok THEN r.coll ELSE coll]

\* add_documents(documents, embeddings, batch_size): outcome "returned" with
\* the count, or "raised" (RagException); coll is the collection afterwards
AddDocuments(coll, documents, embeddings, batch_size, now, mode, failBatch) ==
    IF documents = <<>> \/ embeddings = <<>>
    THEN [outcome |-> "returned", added |-> 0, coll |-> coll]
    ELSE IF Len(documents) # Len(embeddings)
    THEN [outcome |-> "raised", added |-> 0, coll |-> coll]
    ELSE LET r == AddBatches(coll, documents, embeddings, 0, batch_size, now,
                             mode, failBatch)
         IN  [outcome |-> IF r.ok THEN "returned" ELSE "raised",
              added |-> r.added, coll |-> r.coll]

\* delete_by_source that looks the path up as it was given
DeleteBySourceAsGiven(coll, source_path, fails) ==
    LET ids == IdsOf(RecordsOfSource(coll, source_path))
    IN  IF fails THEN [outcome |-> "raised", deleted |-> 0, coll |-> coll]
        ELSE [outcome |-> "returned", deleted |-> Cardinality(ids),
              coll |-> {r \in coll : r.id \notin ids}]

\* delete_by_source(source_path): the records whose metadata source equals the
\* normalised path are deleted and counted; fails is collection.get or
\* collection.delete raising, which becomes a RagException
DeleteBySource(coll, source_path, fails) ==
    LET path == Normpath(source_path)
        ids == IdsOf(RecordsOfSource(coll, path))
    IN  IF fails THEN [outcome |-> "raised", deleted |-> 0, coll |-> coll]
        ELSE [outcome |-> "returned", deleted |-> Cardinality(ids),
              coll |-> {r \in coll : r.id \notin ids}]

\* os.path.exists(path) on the local file system fs
PathExists(fs, path) == path \in DOMAIN fs

\* sync_with_filesystem(active_folder) on the local file system fs: the
\* distinct sources of the stored records are collected, those for which
\* os.path.exists is false are handed to delete_by_sources, and the statistics
\* are returned; active_folder is only logged; fails is collection.get
\* raising, which becomes a RagException
SyncWithFilesystem(coll, fs, active_folder, fails) ==
    LET db_sources == {r.metadata.source : r \in {q \in coll : q.metadata.source # <<>>}}
        missing_files == {source \in db_sources : ~PathExists(fs, source)}
        gone == {r \in coll : r.metadata.source \in
                                 {Normpath(source) : source \in missing_files}}
    IN  IF fails THEN [outcome |-> "raised", coll |-> coll, stats |-> <<>>]
        ELSE [outcome |-> "returned", coll |-> coll \ gone,
              stats |-> [total_sources_in_db |-> Cardinality(db_sources),
                         missing_files |-> Cardinality(missing_files),
                         embeddings_deleted |-> Cardinality(gone),
                         remaining_documents |-> Cardinality(coll \ gone)]]

(***************************************************************************)
(* Extractor, chunker and embedder as the pipeline uses them.  A file's    *)
(* content is the sequence of passages the text splitter cuts it into;     *)
(* each passage is a text (a sequence of characters).                      *)
(***************************************************************************)
PDF == <<".", "p", "d", "f">>
TXT == <<".", "t", "x", "t">>

\* DocumentExtractor.supported_extensions
SupportedExtensions == {PDF, TXT}

\* extract_from_file(file_path) on the local file system fs; fails is the
\* loader failing on the file. A PDF yields one Document per page (here: per
\* passage), a text file exactly one Document holding the whole file.
ExtractFromFile(fs, file_path, fails) ==
    IF file_path \notin DOMAIN fs THEN [ok |-> FALSE, documents |-> <<>>]
    ELSE IF Lower(Splitext(file_path)[2]) \notin SupportedExtensions
    THEN [ok |-> FALSE, documents |-> <<>>]
    ELSE IF fails THEN [ok |-> FALSE, documents |-> <<>>]
    ELSE IF Lower(Splitext(file_path)[2]) = PDF
    THEN [ok |-> TRUE,
          documents |-> [k \in 1..Len(fs[file_path]) |->
                           [page_content |-> <<fs[file_path][k]>>,
                            metadata |-> [source |-> file_path]]]]
    ELSE [ok |-> TRUE,
          documents |-> <<[page_content |-> fs[file_path],
                           metadata |-> [source |-> file_path]]>>]

RECURSIVE ChunkDocuments(_)
\* chunk_documents: the chunks of every document, in order, each carrying its
\* document's metadata
ChunkDocuments(documents) ==
    IF documents = <<>> THEN <<>>
    ELSE IF Len(documents) = 1
    THEN [k \in 1..Len(Head(documents).page_content) |->
            [page_content |-> Head(documents).page_content[k],
             metadata |-> Head(documents).metadata]]
    ELSE ChunkDocuments(SubSeq(documents, 1, Len(documents) \div 2))
         \o ChunkDocuments(SubSeq(documents, Len(documents) \div 2 + 1,
                                  Len(documents)))

\* the embedding model's vector for a text
Embedding(text) == <<"vec", text>>

\* embed_documents
EmbedDocuments(documents) ==
    [k \in 1..Len(documents) |-> Embedding(documents[k].page_content)]

(***************************************************************************)
(* Document pipeline.                                                      *)
(***************************************************************************)
DUPLICATE == <<"_", "d", "u", "p", "l", "i", "c", "a", "t", "e">>

\* tempfile.NamedTemporaryFile(delete=False, suffix=file_ext).name: a fresh
\* name, n being the number of the call
TmpPath(n, file_ext) ==
    <<"/", "t", "m", "p", "/", "t", "m", "p", ToString(n)>> \o file_ext

\* a blob container is a function from blob names to contents
Put(container, name, content) ==
    [n \in DOMAIN container \cup {name} |->
        IF n = name THEN content ELSE container[n]]

Del(container, name) == [n \in DOMAIN container \ {name} |-> container[n]]

\* the file names list_blob_names_and_files reports for a container
ListBlobFiles(container) == DOMAIN container

\* check_file_exists_in_accepted(filename); listFails: listing the container
\* raises, which the method turns into False
CheckFileExistsInAccepted(filename, container, listFails) ==
    IF listFails THEN FALSE
    ELSE LET base_filename == Strip(Remove(filename, DUPLICATE))
         IN  \E blob_file \in ListBlobFiles(container) :
                 IsSubstr(base_filename, blob_file)

\* move_blob_between_containers: copy to the destination, then delete the
\* source; fault "copy" or "delete" is the storage call that raises
MoveBlobBetweenContainers(src, dst, blob_name, new_blob_name, fault) ==
    LET dest_blob_name == IF new_blob_name # <<>> THEN new_blob_name
                                                  ELSE blob_name
    IN  IF fault = "copy" \/ blob_name \notin DOMAIN src
        THEN [ok |-> FALSE, src |-> src, dst |-> dst, copied |-> FALSE]
        ELSE IF fault = "delete"
        THEN [ok |-> FALSE, src |-> src,
              dst |-> Put(dst, dest_blob_name, src[blob_name]), copied |-> TRUE]
        ELSE [ok |-> TRUE, src |-> Del(src, blob_name),
              dst |-> Put(dst, dest_blob_name, src[blob_name]), copied |-> TRUE]

\* a message of the pipeline: its fixed text and the values formatted into
\* it (a file name, the text of an inner message or exception, two counts)
Msg(kind, name, detail, added, total) ==
    [kind |-> kind, name |-> name, detail |-> detail, added |-> added,
     total |-> total]

\* ProcessFailed with the failure reported as a success
ProcessFailedAsSuccess(stage, stages, coll) ==
    [success |-> TRUE, added |-> 0, coll |-> coll, stages |-> stages,
     message |-> Msg("Error processing file", <<>>, <<stage>>, 0, 0)]

\* the except branch of process_single_file: (False, "Error processing
\* file: ...", 0); stages are the stages entered, coll the collection left
ProcessFailed(stage, stages, coll) ==
    [success |-> FALSE, added |-> 0, coll |-> coll, stages |-> stages,
     message |-> Msg("Error processing file", <<>>, <<stage>>, 0, 0)]

\* NoContentExtracted with the remaining stages run on the empty list
NoContentExtractedGoesOn(coll) ==
    [success |-> TRUE, added |-> 0, coll |-> coll,
     stages |-> <<"extract", "chunk", "embed", "add">>,
     message |-> Msg("Successfully processed", <<>>, <<>>, 0,
                     Cardinality(coll))]

\* `if not documents: return False, "No content extracted from file", 0`
NoContentExtracted(coll) ==
    [success |-> FALSE, added |-> 0, coll |-> coll, stages |-> <<"extract">>,
     message |-> Msg("No content extracted from file", <<>>, <<>>, 0, 0)]

\* the batch of add_documents whose Collection.add raises under a fault of
\* the pipeline: the first for "add", the second for "add2", none otherwise
FailBatchOf(fault) ==
    IF fault = "add" THEN 1 ELSE IF fault = "add2" THEN 2 ELSE 0

\* process_single_file(file_path): Extract, Chunk, Embed, Store; every
\* exception becomes (False, "Error processing file: ...", 0)
ProcessSingleFile(coll, fs, file_path, fault, now, mode) ==
    With(ExtractFromFile(fs, file_path, fault = "extract"), LAMBDA ex :
      IF ~ex.ok THEN ProcessFailed("extract", <<"extract">>, coll)
      ELSE IF ex.documents = <<>> THEN NoContentExtracted(coll)
      ELSE IF fault = "chunk"
      THEN ProcessFailed("chunk", <<"extract", "chunk">>, coll)
      ELSE With(ChunkDocuments(ex.documents), LAMBDA chunks :
        IF fault = "embed" /\ chunks # <<>>
        THEN ProcessFailed("embed", <<"extract", "chunk", "embed">>, coll)
        ELSE With(EmbedDocuments(chunks), LAMBDA embeddings :
          With(AddDocuments(coll, chunks, embeddings, DefaultBatchSize, now,
                            mode, FailBatchOf(fault)), LAMBDA add :
            IF add.outcome = "raised"
            THEN ProcessFailed("add", <<"extract", "chunk", "embed", "add">>,
                               add.coll)
            ELSE [success |-> TRUE, added |-> add.added, coll |-> add.coll,
                  stages |-> <<"extract", "chunk", "embed", "add">>,
                  message |-> Msg("Successfully processed", <<>>, <<>>,
                                  add.added, Cardinality(add.coll))]))))

(***************************************************************************)
(* Retrieval tool: rag (src/src/tools/rag.py).  A text is a sequence of     *)
(* strings, the fixed texts of the code each one string and the file names  *)
(* character by character, so that joining and comparing texts is computed. *)
(***************************************************************************)
\* n_results of the query in rag
TopK == 3

\* the text rag returns when the query found nothing
Sentinel ==
    <<"I couldn't find any relevant documents to answer your question. Please make sure documents are indexed in the database.">>

StorageAccountName == <<"poc123">>
ContainerName == <<"accepted">>

\* f"https://{storage_account_name}.blob.core.windows.net/{container_name}/{source_filename}"
BlobUrl(source_filename) ==
    <<"https://">> \o StorageAccountName \o <<".blob.core.windows.net/">>
       \o ContainerName \o <<"/">> \o source_filename

\* the result lists collection.query can return for n_results: the
\* min(n_results, count) nearest records in the order of their distance,
\* which the query vector decides
Rankings(coll, n_results) ==
    LET m == IF Cardinality(coll) < n_results THEN Cardinality(coll)
                                              ELSE n_results
    IN  {f \in [1..m -> coll] : \A i, j \in 1..m : f[i] = f[j] => i = j}

\* db_manager.query(query_embedding, n_results): ids, documents, metadatas
\* and distances of the ranking, distances in thousandths, nearest first
Query(coll, n_results, ranking) ==
    [k \in 1..Len(ranking) |->
        [id |-> ranking[k].id, document |-> ranking[k].document,
         metadata |-> ranking[k].metadata, distance |-> 100 * k]]

RECURSIVE CitationsFrom(_, _, _)
\* the loop over the results from position i on: one citation for every
\* source_filename not in seen_sources
CitationsFrom(results, i, seen_sources) ==
    IF i > Len(results) THEN <<>>
    ELSE LET source_filename == results[i].metadata.source_filename
         IN  IF source_filename \notin seen_sources
             THEN <<[filename |-> source_filename,
                     path |-> results[i].metadata.source,
                     blob_url |-> BlobUrl(source_filename),
                     similarity_score |-> 1000 - results[i].distance]>>
                  \o CitationsFrom(results, i + 1,
                                   seen_sources \cup {source_filename})
             ELSE CitationsFrom(results, i + 1, seen_sources)

\* the citations loop that appends a citation for every result
CitationsOfEveryResult(results) ==
    [i \in 1..Len(results) |->
        [filename |-> results[i].metadata.source_filename,
         path |-> results[i].metadata.source,
         blob_url |-> BlobUrl(results[i].metadata.source_filename),
         similarity_score |-> 1000 - results[i].distance]]

\* the citations rag builds for the results
Citations(results) == CitationsFrom(results, 1, {})

RECURSIVE Join(_, _)
\* sep.join(parts)
Join(parts, sep) ==
    IF parts = <<>> THEN <<>>
    ELSE IF Len(parts) = 1 THEN parts[1]
    ELSE parts[1] \o sep \o Join(Tail(parts), sep)

\* f"* [{filename}]({blob_url}) (Similarity: {similarity})", the bullet and
\* the emoji of the code written in ASCII, the similarity in thousandths
CitationLine(citation) ==
    <<"* [">> \o citation.filename \o <<"](">> \o citation.blob_url
       \o <<") (Similarity: ", ToString(citation.similarity_score), ")">>

\* final_response: the prefix, the answer and, when there are citations, the
\* sources header and one line per citation, joined by newlines
FormatResponse(answer, citations) ==
    Join(<< <<"[book] **Knowledge Base Answer:**\n">>, answer >>
         \o (IF citations # <<>>
             THEN << <<"\n\n[books] Sources:">> >>
                  \o [k \in 1..Len(citations) |-> CitationLine(citations[k])]
             ELSE <<>>),
         <<"\n">>)

\* RagError with the exception left to propagate
RagErrorRaised(e, results) ==
    [outcome |-> "raised", response |-> <<>>, results |-> results]

\* the except branch of rag: f"Error: {str(e)}" is returned
RagError(e, results) ==
    [outcome |-> "returned", response |-> <<"Error: ">> \o e,
     results |-> results]

\* rag(query): ranking is the order of the stored records by distance to
\* the query, answer the content the language model returns, fault the call
\* that raises ("embed", "query", "llm") or "none"
Rag(coll, query, ranking, answer, fault) ==
    IF fault = "embed" THEN RagError(<<"embed">>, <<>>)
    ELSE IF fault = "query" THEN RagError(<<"query">>, <<>>)
    ELSE With(Query(coll, TopK, ranking), LAMBDA results :
      IF results = <<>>
      THEN [outcome |-> "returned", response |-> Sentinel, results |-> results]
      ELSE IF fault = "llm" THEN RagError(<<"llm">>, results)
      ELSE [outcome |-> "returned",
            response |-> FormatResponse(answer, Citations(results)),
            results |-> results])

(***************************************************************************)
(* Grounding tool (src/src/tools/grounding.py).  A text is a sequence of    *)
(* strings: the brackets "[", "]", "(", ")", the separators "|" and " - ",  *)
(* a blank " ", a newline "\n", the scheme of a URL ("https://"), and words  *)
(* that hold none of these.  The regular expressions of the code are        *)
(* matched on these sequences as re matches them on the characters.         *)
(***************************************************************************)
WhiteSpace == {" ", "\n"}
Schemes == {"https://", "http://"}
\* what "Sources?:" matches with re.IGNORECASE
SourcesLabels == {"Sources:", "Source:", "sources:", "source:"}

\* the fixed message of grounding for a failed call (the emoji in ASCII)
Unable ==
    <<"[warning] Unable to retrieve information from web sources at this time.">>

RECURSIVE FirstOf(_, _, _)
\* the first position from i on holding a string of toks, Len + 1 if none
FirstOf(text, toks, i) ==
    IF i > Len(text) THEN Len(text) + 1
    ELSE IF text[i] \in toks THEN i ELSE FirstOf(text, toks, i + 1)

RECURSIVE SkipWhile(_, _, _)
\* the first position from i on not holding a string of toks
SkipWhile(text, toks, i) ==
    IF i > Len(text) THEN Len(text) + 1
    ELSE IF text[i] \notin toks THEN i ELSE SkipWhile(text, toks, i + 1)

\* str.strip()
StripWs(text) ==
    LET a == SkipWhile(text, WhiteSpace, 1)
        I == {i \in 1..Len(text) : text[i] \notin WhiteSpace}
    IN  IF I = {} THEN <<>>
        ELSE SubSeq(text, a, CHOOSE i \in I : \A j \in I : j <= i)

\* \[[^\]]+\]\([^\)]+\) matched at position i: the position after the match,
\* 0 when there is no match
LinkEnd(text, i) ==
    LET j == FirstOf(text, {"]"}, i + 1)
        k == FirstOf(text, {")"}, j + 2)
    IN  IF /\ i <= Len(text) /\ text[i] = "["
           /\ j <= Len(text) /\ j > i + 1
           /\ j + 1 <= Len(text) /\ text[j + 1] = "("
           /\ k <= Len(text) /\ k > j + 2
        THEN k + 1 ELSE 0

RECURSIVE LinksEnd(_, _)
\* (?:\[[^\]]+\]\([^\)]+\)[\r\n]*)+ matched at position i, greedy: the
\* position after the match, 0 when there is no match
LinksEnd(text, i) ==
    LET e == LinkEnd(text, i)
    IN  IF e = 0 THEN 0
        ELSE LET n == SkipWhile(text, {"\n"}, e)
                 r == LinksEnd(text, n)
             IN  IF r = 0 THEN n ELSE r

\* Sources?:\s*((?:link[\r\n]*)+) matched at position p (the alternative led
\* by the emoji needs the emoji, which the texts here do not hold): the
\* bounds of group 1, or 0 and 0
SectionAt(text, p) ==
    IF p > Len(text) \/ text[p] \notin SourcesLabels
    THEN [from |-> 0, to |-> 0]
    ELSE LET from == SkipWhile(text, WhiteSpace, p + 1)
             to == LinksEnd(text, from)
         IN  IF to = 0 THEN [from |-> 0, to |-> 0]
             ELSE [from |-> from, to |-> to]

\* re.search of the sources section: group 1 of the leftmost match, or <<>>
\* with found FALSE
SearchSection(text) ==
    LET P == {p \in 1..Len(text) : SectionAt(text, p).to # 0}
    IN  IF P = {} THEN [found |-> FALSE, group |-> <<>>]
        ELSE LET p == CHOOSE q \in P : \A r \in P : q <= r
             IN  [found |-> TRUE,
                  group |-> SubSeq(text, SectionAt(text, p).from,
                                   SectionAt(text, p).to - 1)]

RECURSIVE FindLinks(_, _)
\* re.findall(r'\[([^\[\]]+)\]\((https?://[^\)]+)\)', text) from position i
FindLinks(text, i) ==
    IF i > Len(text) THEN <<>>
    ELSE LET j == FirstOf(text, {"[", "]"}, i + 1)
             k == FirstOf(text, {")"}, j + 3)
         IN  IF /\ text[i] = "["
                /\ j <= Len(text) /\ text[j] = "]" /\ j > i + 1
                /\ j + 2 <= Len(text) /\ text[j + 1] = "("
                /\ text[j + 2] \in Schemes
                /\ k <= Len(text) /\ k > j + 3
             THEN <<[title |-> SubSeq(text, i + 1, j - 1),
                     url |-> SubSeq(text, j + 2, k - 1)]>>
                  \o FindLinks(text, k + 1)
             ELSE FindLinks(text, i + 1)

RECURSIVE RemoveSections(_, _)
\* re.sub(r'\n*Sources?:\s*(?:link[\r\n]*)+', '', text) from position i
RemoveSections(text, i) ==
    IF i > Len(text) THEN <<>>
    ELSE LET p == SkipWhile(text, {"\n"}, i)
         IN  IF SectionAt(text, p).to # 0
             THEN RemoveSections(text, SectionAt(text, p).to)
             ELSE <<text[i]>> \o RemoveSections(text, i + 1)

\* f"[{i}] [{title}]({url})"
NumberedLink(i, title, url) ==
    <<"[", ToString(i), "]", " ", "[">> \o title \o <<"]", "(">> \o url
       \o <<")">>

\* `x or 'Source'`
OrSource(title) == IF title = <<>> THEN <<"Source">> ELSE title

\* urlparse(url).netloc.replace('www.', ''): what follows the scheme up to
\* the path, without "www."
Domain(url) ==
    LET P == {k \in 2..Len(url) : url[k] \in {"/p", "/q"}}
        e == IF P = {} THEN Len(url)
             ELSE (CHOOSE k \in P : \A j \in P : k <= j) - 1
    IN  Remove(SubSeq(url, 2, e), <<"www.">>)

\* the last position of text holding tok, 0 if none
LastOf(text, tok) ==
    LET I == {i \in 1..Len(text) : text[i] = tok}
    IN  IF I = {} THEN 0 ELSE CHOOSE i \in I : \A j \in I : j <= i

\* the first URL re.findall(r'https?://[^\s\]]+', text) finds, <<>> if none
FirstUrl(text) ==
    LET P == {p \in 1..Len(text) :
                /\ text[p] \in Schemes
                /\ FirstOf(text, WhiteSpace \cup {"]"}, p + 1) > p + 1}
    IN  IF P = {} THEN <<>>
        ELSE LET p == CHOOSE q \in P : \A r \in P : q <= r
             IN  SubSeq(text, p, FirstOf(text, WhiteSpace \cup {"]"}, p + 1) - 1)

\* the cascade over one entry of the citations array, i its number: the
\* markdown link formatted for it, <<>> when no format applies
SourceLink(citation, i) ==
    LET text == citation.text
        bar == FirstOf(text, {"|"}, 1)
        dash == LastOf(text, " - ")
        first ==
            IF text # <<>> /\ text[1] \in Schemes
            THEN NumberedLink(i, Domain(text), text)
            ELSE IF bar <= Len(text)
            THEN IF /\ StripWs(SubSeq(text, bar + 1, Len(text))) # <<>>
                    /\ Head(StripWs(SubSeq(text, bar + 1, Len(text)))) \in Schemes
                 THEN NumberedLink(i, StripWs(SubSeq(text, 1, bar - 1)),
                                   StripWs(SubSeq(text, bar + 1, Len(text))))
                 ELSE <<>>
            ELSE IF dash > 0
            THEN IF /\ StripWs(SubSeq(text, dash + 1, Len(text))) # <<>>
                    /\ Head(StripWs(SubSeq(text, dash + 1, Len(text)))) \in Schemes
                 THEN NumberedLink(i, StripWs(SubSeq(text, 1, dash - 1)),
                                   StripWs(SubSeq(text, dash + 1, Len(text))))
                 ELSE <<>>
            ELSE <<>>
    IN  IF citation.type = "dict"
        THEN IF citation.url # <<>>
             THEN NumberedLink(i, OrSource(citation.title), citation.url)
             ELSE <<>>
        ELSE IF citation.type # "str" THEN <<>>
        ELSE IF first # <<>> THEN first
        ELSE IF (\E k \in 1..Len(text) : text[k] \in Schemes)
                /\ FirstUrl(text) # <<>>
        THEN NumberedLink(i, OrSource(StripWs(Remove(text, FirstUrl(text)))),
                          FirstUrl(text))
        ELSE <<>>

\* str(citation) of the plain entry f"[{i}] {citation}"
CitationStr(citation) ==
    IF citation.type = "str" THEN citation.text
    ELSE IF citation.url = <<>>
         THEN <<"{'title': '">> \o citation.title \o <<"'}">>
         ELSE <<"{'title': '">> \o citation.title \o <<"', 'url': '">>
              \o citation.url \o <<"'}">>

\* the entry appended to formatted_sources for citation number i: the link,
\* or as the last resort the plain text
SourceEntry(citation, i) ==
    IF SourceLink(citation, i) # <<>> THEN SourceLink(citation, i)
    ELSE <<"[", ToString(i), "]", " ">> \o CitationStr(citation)

\* formatted_sources: the links of the sources section of the answer when
\* there is one, else the entries for the citations array
FormattedSources(answer, citations) ==
    LET match == SearchSection(answer)
        source_links == IF match.found THEN FindLinks(match.group, 1) ELSE <<>>
    IN  IF source_links # <<>>
        THEN [i \in 1..Len(source_links) |->
                NumberedLink(i, source_links[i].title, source_links[i].url)]
        ELSE [i \in 1..Len(citations) |-> SourceEntry(citations[i], i)]

\* the value of the variable answer after the sources section is removed
\* (lines 190-195); response_parts already holds the answer as received
AnswerWithoutSection(answer) ==
    IF SearchSection(answer).found THEN StripWs(RemoveSections(answer, 1))
    ELSE answer

\* final_response: the header, an empty line, the answer appended to
\* response_parts at line 163 and, when there are sources, the sources block
GroundingResponse(answer, formatted_sources) ==
    Join(<< <<"[globe] **Web Search Answer:**">>, <<>>, answer >>
         \o (IF formatted_sources # <<>>
             THEN << <<>>, <<"---">>, <<"**[books] Sources:**">> >>
                  \o formatted_sources
             ELSE <<>>),
         <<"\n">>)

\* _call_perplexity_api: the dict it returns, or None (ok FALSE); api is what
\* the API call does: "no_key", "timeout", "connection", "status" (not 200),
\* "not_json", "empty_choices" ({"choices": []}), "no_choices" ({}),
\* "null_content" (content is null) or "ok"
CallPerplexityApi(api, content, citations) ==
    IF api \in {"no_key", "timeout", "connection", "status", "not_json",
                "empty_choices"}
    THEN [ok |-> FALSE, content |-> <<>>, citations |-> <<>>, null |-> FALSE]
    ELSE IF api = "no_choices"
    THEN [ok |-> TRUE, content |-> <<>>, citations |-> <<>>, null |-> FALSE]
    ELSE IF api = "null_content"
    THEN [ok |-> TRUE, content |-> <<>>, citations |-> citations, null |-> TRUE]
    ELSE [ok |-> TRUE, content |-> content, citations |-> citations,
          null |-> FALSE]

\* grounding(query): the text returned
Grounding(api, content, citations) ==
    With(CallPerplexityApi(api, content, citations), LAMBDA response :
      IF ~response.ok
      THEN [outcome |-> "returned", response |-> Unable, sources |-> <<>>,
            answer |-> <<>>]
      ELSE IF response.null
      THEN [outcome |-> "returned",
            response |-> <<"Error during grounding: ", "TypeError">>,
            sources |-> <<>>, answer |-> <<>>]
      ELSE With(FormattedSources(response.content, response.citations),
                LAMBDA formatted_sources :
             [outcome |-> "returned",
              response |-> GroundingResponse(response.content,
                                             formatted_sources),
              sources |-> formatted_sources,
              answer |-> AnswerWithoutSection(response.content)]))

(***************************************************************************)
(* Inputs.                                                                 *)
(***************************************************************************)
\* three texts: T1 and T2 agree on their first 100 characters and differ in
\* the 101st; T3 is short
T1 == << <<"x", IdPrefixLen>>, <<"1", 1>> >>
T2 == << <<"x", IdPrefixLen>>, <<"2", 1>> >>
T3 == << <<"y", 1>> >>

\* file contents: one passage, two passages, none
Contents == {<<T1>>, <<T2, T3>>, <<>>}

\* a file of one page more than a batch of add_documents holds, page k
\* being k times the letter z
BigContent == [k \in 1..(DefaultBatchSize + 1) |-> << <<"z", k>> >>]

\* the contents of uploaded files
UploadContents == {<<T1>>, <<T2, T3>>}

\* uploaded file names: a.pdf, ba.pdf, a.PDF, a_duplicate.pdf, a.exe
UploadNames ==
    { <<"a">> \o PDF,
      <<"b", "a">> \o PDF,
      <<"a", ".", "P", "D", "F">>,
      <<"a">> \o DUPLICATE \o PDF,
      <<"a", ".", "e", "x", "e">> }

\* the names of the uploads that are queried afterwards: a.pdf and n.txt
IngestNames == { <<"a">> \o PDF, <<"n">> \o TXT }

\* the queries of the sessions: empty, blank and two questions
Queries == {<<>>, <<" ">>, <<"q", "1">>, <<"q", "2">>}

\* the contents the language model returns for an answer: none, an answer,
\* and the text of the sentinel
Answers == {<<>>, <<"P", "a", "r", "i", "s">>, Sentinel}

\* the call that fails during one rag call
RagFaults == {"none", "embed", "query", "llm"}

\* number of entries of a citations array of the web answer
MaxCitations == 2

\* what the call of the web-answer API does
ApiOutcomes ==
    {"ok", "no_key", "timeout", "connection", "status", "not_json",
     "empty_choices", "no_choices", "null_content"}

\* two sources of a web answer
L1 == [title |-> <<"T1">>, url |-> <<"https://", "u1.com">>]
L2 == [title |-> <<"T2">>, url |-> <<"https://", "u2.com", "/q">>]

\* the web answers: a body and the sources the answer lists under
\* "Sources:", with the numbers the system prompt asks for or without them
RawAnswers ==
    {raw \in [body : {<<"Paris">>, <<"Paris", " ", "[", "1", "]">>},
              links : {<<>>, <<L1>>, <<L1, L2>>},
              numbered : BOOLEAN] : raw.links = <<>> => ~raw.numbered}

\* a line of the sources section of a web answer
SourceLine(link, i, numbered) ==
    (IF numbered THEN <<"[", ToString(i), "]", " ">> ELSE <<>>)
       \o <<"[">> \o link.title \o <<"]", "(">> \o link.url \o <<")">>

\* the content of a web answer: the body, and the sources section in the
\* format the system prompt of _call_perplexity_api demands
RenderAnswer(raw) ==
    IF raw.links = <<>> THEN raw.body
    ELSE raw.body \o <<"\n", "\n", "Sources:", "\n">>
         \o Join([i \in 1..Len(raw.links) |->
                    SourceLine(raw.links[i], i, raw.numbered)], <<"\n">>)

\* entries of the citations array: a bare URL, title|url, title - url, a
\* dict with url and title, a dict without url, a string without any URL,
\* title|host without scheme, text holding a URL
CitationForms ==
    { [type |-> "str", title |-> <<>>, url |-> <<>>,
       text |-> <<"https://", "www.", "u1.com", "/p">>],
      [type |-> "str", title |-> <<>>, url |-> <<>>,
       text |-> <<"T1", "|", "https://", "u2.com">>],
      [type |-> "str", title |-> <<>>, url |-> <<>>,
       text |-> <<"T1", " - ", "https://", "u2.com">>],
      [type |-> "dict", title |-> <<"T1">>, url |-> <<"https://", "u1.com">>,
       text |-> <<>>],
      [type |-> "dict", title |-> <<"T1">>, url |-> <<>>, text |-> <<>>],
      [type |-> "str", title |-> <<>>, url |-> <<>>,
       text |-> <<"Some", " ", "Book">>],
      [type |-> "str", title |-> <<>>, url |-> <<>>,
       text |-> <<"T1", "|", "u2.com">>],
      [type |-> "str", title |-> <<>>, url |-> <<>>,
       text |-> <<"see", " ", "https://", "u1.com">>] }

\* the citations arrays
CitationLists ==
    UNION {[1..n -> CitationForms] : n \in 0..MaxCitations}

\* the citations arrays that come with an answer: up to MaxCitations entries
\* with an answer that lists no sources, at most one entry with an answer that
\* lists its sources itself
CitationListsWith(raw) ==
    IF raw.links = <<>> THEN CitationLists
    ELSE {citations \in CitationLists : Len(citations) <= 1}

\* agent calls made in all, and model calls that ask for tools in one turn
MaxTurns == 2
MaxModelCalls == 2

\* the thread ids that callers pass; None is a call without thread_id
ThreadIds == {"A", "B"}
None == "None"

\* the tool_calls of a reply of the chat model: one tool, or both tools in
\* either order in one message
ToolCallLists ==
    { <<"rag">>, <<"grounding">>, <<"rag", "grounding">>,
      <<"grounding", "rag">> }

\* the replies of the chat model: a final answer, or a request for tools
ModelReplies ==
    {[content |-> <<"P", "a", "r", "i", "s">>, tool_calls |-> <<>>]}
       \cup {[content |-> <<>>, tool_calls |-> c] : c \in ToolCallLists}

\* the web answer of the grounding calls the agent makes
AgentRawAnswer == [body |-> <<"Paris">>, links |-> <<L1>>, numbered |-> TRUE]

\* the storage or service call that fails during one upload
Faults == {"none", "upload", "copy", "delete", "extract", "embed", "add"}

\* local files handed to add_documents directly: /d/a.txt and /d/b.txt
LocalSources == { <<"/", "d", "/", "a">> \o TXT, <<"/", "d", "/", "b">> \o TXT }

\* the paths handed to delete_by_source: the local sources, /d//a.txt (the
\* first source, not normalised) and /d/c.txt (never indexed)
DeletePaths ==
    LocalSources \cup { <<"/", "d", "/", "/", "a">> \o TXT,
                        <<"/", "d", "/", "c">> \o TXT }

\* the batch_size arguments of direct add_documents calls
BatchSizes == {1, DefaultBatchSize}

(***************************************************************************)
(* State.                                                                  *)
(***************************************************************************)
VARIABLES
    rawdata,      \* blob container "rawdata": name -> content
    accepted,     \* blob container "accepted"
    rejected,     \* blob container "rejected"
    collection,   \* the ChromaDB collection: a set of records with distinct ids
    localfs,      \* local files: path -> content (the temporary files)
    onExisting,   \* what Collection.add does with a stored id: "ignore"/"raise"
    uploads,      \* number of handle_uploaded_file calls so far
    adds,         \* number of direct add_documents and process_single_file calls
                  \* so far
    indexed,      \* source -> the file it names, the chunks and ids indexed for it
    last,         \* the last call: its arguments, what it did and returned
    memory,       \* the MemorySaver of every agent instance created, in the
                  \* order of creation: thread id -> the messages
                  \* checkpointed for it
    running,      \* thread id -> the turn of the call in progress on it
    turns,        \* number of agent calls so far
    agentInstance,\* _agent_instance of agent_service: 0 for None, else the
                  \* number of the agent instance it holds
    sessions      \* session -> the handle_uploaded_file call it runs step by
                  \* step: its arguments, its locals and the step it is at

vars == <<rawdata, accepted, rejected, collection, localfs, onExisting,
          uploads, adds, indexed, last, memory, running, turns,
          agentInstance, sessions>>

\* the empty container
Empty == [n \in {} |-> <<>>]

\* datetime.now() of the next call
Now == uploads + adds + 1

Init ==
    /\ rawdata = Empty
    /\ accepted = Empty
    /\ rejected = Empty
    /\ collection = {}
    /\ localfs = Empty
    /\ onExisting \in {"ignore", "raise"}
    /\ uploads = 0
    /\ adds = 0
    /\ indexed = Empty
    /\ last = [op |-> "none"]
    /\ memory = <<>>
    /\ running = Empty
    /\ turns = 0
    /\ agentInstance = 0
    /\ sessions = Empty

(***************************************************************************)
(* handle_uploaded_file(uploaded_file, file_content) as one step.          *)
(***************************************************************************)
\* PipelineError reporting the container the staged blob was left in
PipelineErrorInRawdata(raw, acc, rej, coll, fs, stage, calls, placed, tmp_path) ==
    [rawdata |-> raw, accepted |-> acc, rejected |-> rej,
     collection |-> coll, localfs |-> fs,
     success |-> FALSE, final |-> "rawdata",
     message |-> Msg("Error in pipeline", <<>>, <<stage>>, 0, 0),
     calls |-> calls \o <<"unlink">>, placed |-> placed,
     tmp_path |-> tmp_path]

\* the except branch of handle_uploaded_file: the temporary file is
\* unlinked (fs is the file system after it) and "error" is reported
PipelineError(raw, acc, rej, coll, fs, stage, calls, placed, tmp_path) ==
    [rawdata |-> raw, accepted |-> acc, rejected |-> rej,
     collection |-> coll, localfs |-> fs,
     success |-> FALSE, final |-> "error",
     message |-> Msg("Error in pipeline", <<>>, <<stage>>, 0, 0),
     calls |-> calls \o <<"unlink">>, placed |-> placed,
     tmp_path |-> tmp_path]

\* the calls made up to the end of move_blob_between_containers
MoveCalls(mv) ==
    IF mv.copied THEN <<"upload", "list", "copy", "delete">>
                 ELSE <<"upload", "list", "copy">>

\* RejectDuplicate that goes on to index the rejected file
RejectDuplicateAndIndex(filename, file_content, fault, tmp_path, fs1) ==
    LET file_ext == Lower(Splitext(filename)[2])
        duplicate_filename == Splitext(filename)[1] \o DUPLICATE \o file_ext
    IN  With(MoveBlobBetweenContainers(Put(rawdata, filename, file_content),
                                       rejected, filename, duplicate_filename,
                                       fault), LAMBDA mv :
          IF ~mv.ok
          THEN PipelineError(mv.src, accepted, mv.dst, collection,
                             Del(fs1, tmp_path), fault, MoveCalls(mv),
                             IF mv.copied THEN {"rejected"} ELSE {}, tmp_path)
          ELSE With(ProcessSingleFile(collection, fs1, tmp_path, fault, Now,
                                      onExisting), LAMBDA psf :
                 [rawdata |-> mv.src, accepted |-> accepted,
                  rejected |-> mv.dst, collection |-> psf.coll,
                  localfs |-> Del(fs1, tmp_path),
                  success |-> FALSE, final |-> "rejected",
                  message |-> Msg("Duplicate file detected",
                                  duplicate_filename, <<>>, 0, 0),
                  calls |-> MoveCalls(mv) \o psf.stages \o <<"unlink">>,
                  placed |-> {"rejected"}, tmp_path |-> tmp_path]))

\* the duplicate branch (step 3a): the staged blob goes to "rejected" under
\* the name with the _duplicate suffix, the temporary file is unlinked
RejectDuplicate(filename, file_content, fault, tmp_path, fs1) ==
    LET file_ext == Lower(Splitext(filename)[2])
        duplicate_filename == Splitext(filename)[1] \o DUPLICATE \o file_ext
    IN  With(MoveBlobBetweenContainers(Put(rawdata, filename, file_content),
                                       rejected, filename, duplicate_filename,
                                       fault), LAMBDA mv :
          IF ~mv.ok
          THEN PipelineError(mv.src, accepted, mv.dst, collection,
                             Del(fs1, tmp_path), fault, MoveCalls(mv),
                             IF mv.copied THEN {"rejected"} ELSE {}, tmp_path)
          ELSE [rawdata |-> mv.src, accepted |-> accepted,
                rejected |-> mv.dst, collection |-> collection,
                localfs |-> Del(fs1, tmp_path),
                success |-> FALSE, final |-> "rejected",
                message |-> Msg("Duplicate file detected", duplicate_filename,
                                <<>>, 0, 0),
                calls |-> MoveCalls(mv) \o <<"unlink">>,
                placed |-> {"rejected"}, tmp_path |-> tmp_path])

\* the new-file branch (steps 3b and 4): the staged blob goes to "accepted",
\* the temporary file runs through process_single_file and is unlinked
AcceptAndProcess(filename, file_content, fault, tmp_path, fs1) ==
    With(MoveBlobBetweenContainers(Put(rawdata, filename, file_content),
                                   accepted, filename, <<>>, fault), LAMBDA mv :
      IF ~mv.ok
      THEN PipelineError(mv.src, mv.dst, rejected, collection,
                         Del(fs1, tmp_path), fault, MoveCalls(mv),
                         IF mv.copied THEN {"accepted"} ELSE {}, tmp_path)
      ELSE With(ProcessSingleFile(collection, fs1, tmp_path, fault, Now,
                                  onExisting), LAMBDA psf :
             [rawdata |-> mv.src, accepted |-> mv.dst,
              rejected |-> rejected, collection |-> psf.coll,
              localfs |-> Del(fs1, tmp_path),
              success |-> psf.success, final |-> "accepted",
              message |->
                  IF psf.success
                  THEN psf.message
                  ELSE Msg("File moved to accepted but RAG processing failed",
                           <<>>, <<psf.message.kind>> \o psf.message.detail,
                           0, 0),
              calls |-> MoveCalls(mv) \o psf.stages \o <<"unlink">>,
              placed |-> {"accepted"}, tmp_path |-> tmp_path]))

\* handle_uploaded_file: the result of the call and the state it leaves;
\* is_duplicate is what check_file_exists_in_accepted answered
UploadOutcome(filename, file_content, is_duplicate, fault) ==
    With(TmpPath(uploads + 1, Lower(Splitext(filename)[2])), LAMBDA tmp_path :
    With(Put(localfs, tmp_path, file_content), LAMBDA fs1 :
      IF fault = "upload"
      THEN PipelineError(rawdata, accepted, rejected, collection,
                         Del(fs1, tmp_path), "upload", <<"upload">>, {},
                         tmp_path)
      ELSE IF is_duplicate
      THEN RejectDuplicate(filename, file_content, fault, tmp_path, fs1)
      ELSE AcceptAndProcess(filename, file_content, fault, tmp_path, fs1)))

HandleUploadedFile(filename, file_content, listFails, fault) ==
    /\ uploads < MaxUploads
    /\ \E is_duplicate \in
            {fault # "upload"
             /\ CheckFileExistsInAccepted(filename, accepted, listFails)} :
       \E out \in {UploadOutcome(filename, file_content, is_duplicate, fault)} :
           /\ rawdata' = out.rawdata
           /\ accepted' = out.accepted
           /\ rejected' = out.rejected
           /\ collection' = out.collection
           /\ localfs' = out.localfs
           /\ last' = [op |-> "upload", filename |-> filename,
                       content |-> file_content, listFails |-> listFails,
                       fault |-> fault, tmp_path |-> out.tmp_path,
                       is_duplicate |-> is_duplicate,
                       success |-> out.success, message |-> out.message,
                       final |-> out.final, calls |-> out.calls,
                       placed |-> out.placed]
           /\ indexed' =
                IF out.success
                THEN [s \in DOMAIN indexed \cup {out.tmp_path} |->
                        IF s = out.tmp_path
                        THEN [file |-> filename,
                              chunks |-> {<<k, file_content[k]>> :
                                            k \in 1..Len(file_content)},
                              ids |-> IdsOf(RecordsOfSource(out.collection,
                                                            out.tmp_path))]
                        ELSE indexed[s]]
                ELSE indexed
    /\ uploads' = uploads + 1
    /\ UNCHANGED <<onExisting, sessions, adds, memory, running, turns,
                   agentInstance>>

(***************************************************************************)
(* add_documents called directly, as phase_1_index_documents does with the *)
(* chunks of all files of a folder.                                        *)
(***************************************************************************)
\* the chunks of a local file with the given content
ChunksOfFile(source, content) ==
    [k \in 1..Len(content) |->
        [page_content |-> content[k], metadata |-> [source |-> source]]]

\* the ids add_documents computes for a list of documents, in order
ComputedIds(documents) ==
    [k \in 1..Len(documents) |->
        GenerateDocId(documents[k].page_content,
                      Normpath(SourceOf(documents[k])), k - 1)]

\* the sources of a list of documents
SourcesIn(documents) == {SourceOf(documents[k]) : k \in 1..Len(documents)}

\* the positions of a source's chunks in a list of documents
PositionsOf(documents, source) ==
    {k \in 1..Len(documents) : SourceOf(documents[k]) = source}

\* the texts of a source's chunks in their order, as a set of
\* <<ordinal within the file, text>>
ChunkTextsOf(documents, source) ==
    {<<Cardinality({j \in PositionsOf(documents, source) : j <= k}),
       documents[k].page_content>> : k \in PositionsOf(documents, source)}

\* the ids computed for a source's chunks
IdsFor(documents, source) ==
    {ComputedIds(documents)[k] : k \in PositionsOf(documents, source)}

\* add_documents(documents, embeddings, batch_size) with nvec vectors
AddDocumentsCall(documents, nvec, batch_size, failBatch) ==
    /\ adds < MaxAdds
    /\ LET embeddings == [k \in 1..nvec |->
                            IF k <= Len(documents)
                            THEN Embedding(documents[k].page_content)
                            ELSE Embedding(T3)]
           res == AddDocuments(collection, documents, embeddings, batch_size,
                               Now, onExisting, failBatch)
       IN  /\ collection' = res.coll
           /\ last' = [op |-> "add", documents |-> documents,
                       embeddings |-> embeddings,
                       outcome |-> res.outcome, added |-> res.added]
           /\ indexed' =
                IF res.outcome = "returned" /\ res.added > 0
                THEN [s \in DOMAIN indexed \cup SourcesIn(documents) |->
                        IF s \in SourcesIn(documents)
                        THEN [file |-> s,
                              chunks |-> ChunkTextsOf(documents, s),
                              ids |-> IdsFor(documents, s)]
                        ELSE indexed[s]]
                ELSE indexed
    /\ adds' = adds + 1
    /\ UNCHANGED <<rawdata, accepted, rejected, localfs, onExisting, sessions, uploads,
                   memory, running, turns,
                   agentInstance>>

\* process_single_file(file_path) called directly; exists tells whether the
\* file is there, content is what it holds
ProcessSingleFileCall(file_path, content, exists, fault) ==
    /\ adds < MaxAdds
    /\ \E fs \in {IF exists THEN Put(localfs, file_path, content)
                             ELSE Del(localfs, file_path)} :
       \E res \in {ProcessSingleFile(collection, fs, file_path, fault, Now,
                                     onExisting)} :
          /\ localfs' = fs
          /\ collection' = res.coll
          /\ last' = [op |-> "process", file_path |-> file_path,
                      content |-> content, exists |-> exists,
                      fault |-> fault, before |-> collection,
                      success |-> res.success, message |-> res.message,
                      added |-> res.added, stages |-> res.stages]
          /\ indexed' =
                IF res.success /\ res.added > 0
                THEN [s \in DOMAIN indexed \cup {file_path} |->
                        IF s = file_path
                        THEN [file |-> file_path,
                              chunks |-> {<<k, content[k]>> :
                                            k \in 1..Len(content)},
                              ids |-> IdsOf(RecordsOfSource(res.coll,
                                                            file_path))]
                        ELSE indexed[s]]
                ELSE indexed
    /\ adds' = adds + 1
    /\ UNCHANGED <<rawdata, accepted, rejected, onExisting, sessions, uploads, memory,
                   running, turns, agentInstance>>

\* delete_by_source(source_path) called directly
DeleteBySourceCall(source_path, fails) ==
    /\ \E res \in {DeleteBySource(collection, source_path, fails)} :
          /\ collection' = res.coll
          /\ last' = [op |-> "delete", source_path |-> source_path,
                      outcome |-> res.outcome, deleted |-> res.deleted]
          /\ indexed' = [s \in {t \in DOMAIN indexed :
                                   RecordsOfSource(res.coll, Normpath(t)) # {}}
                           |-> indexed[s]]
    /\ UNCHANGED <<rawdata, accepted, rejected, localfs, onExisting, sessions, uploads,
                   adds, memory, running, turns,
                   agentInstance>>

\* sync_with_filesystem(active_folder) called by an external caller
SyncWithFilesystemCall(active_folder, fails) ==
    /\ \E res \in {SyncWithFilesystem(collection, localfs, active_folder,
                                       fails)} :
          /\ collection' = res.coll
          /\ last' = [op |-> "sync", active_folder |-> active_folder,
                      outcome |-> res.outcome, stats |-> res.stats]
          /\ indexed' = [s \in {t \in DOMAIN indexed :
                                   RecordsOfSource(res.coll, Normpath(t)) # {}}
                           |-> indexed[s]]
    /\ UNCHANGED <<rawdata, accepted, rejected, localfs, onExisting, sessions, uploads,
                   adds, memory, running, turns,
                   agentInstance>>

\* rag(query) called as a tool
RagCall(query, ranking, answer, fault) ==
    /\ \E res \in {Rag(collection, query, ranking, answer, fault)} :
          last' = [op |-> "rag", query |-> query, answer |-> answer,
                   fault |-> fault, outcome |-> res.outcome,
                   results |-> res.results, response |-> res.response]
    /\ UNCHANGED <<rawdata, accepted, rejected, collection, localfs,
                   onExisting, sessions, uploads, adds, indexed, memory, running, turns,
                   agentInstance>>

\* grounding(query) called as a tool
GroundingCall(query, api, raw, citations) ==
    /\ \E res \in {Grounding(api, RenderAnswer(raw), citations)} :
          last' = [op |-> "grounding", query |-> query, api |-> api,
                   raw |-> raw, citations |-> citations,
                   outcome |-> res.outcome, response |-> res.response,
                   sources |-> res.sources, answer |-> res.answer]
    /\ UNCHANGED <<rawdata, accepted, rejected, collection, localfs,
                   onExisting, sessions, uploads, adds, indexed, memory, running, turns,
                   agentInstance>>

(***************************************************************************)
(* The agent: create_agent(model, [rag, grounding], system_prompt,         *)
(* checkpointer=MemorySaver()).  A turn is the run of the graph for one     *)
(* user message: the model node, then the tool node for the tool calls of   *)
(* the reply, until a reply asks for no tool.  Every step is checkpointed   *)
(* under the thread id of the call.                                         *)
(***************************************************************************)
\* str(uuid.uuid4()) drawn by call number n: an id that no caller passes and
\* no other call draws
Uuid4(n) == "uuid" \o ToString(n)

HumanMessage(content) ==
    [role |-> "user", content |-> content, tool_calls |-> <<>>, name |-> ""]

AIMessage(content, tool_calls) ==
    [role |-> "ai", content |-> content, tool_calls |-> tool_calls,
     name |-> ""]

ToolMessage(name, content) ==
    [role |-> "tool", content |-> content, tool_calls |-> <<>>,
     name |-> name]

\* the messages checkpointed for a thread id: none for an id never used
History(mem, thread_id) ==
    IF thread_id \in DOMAIN mem THEN mem[thread_id] ELSE <<>>

\* the checkpoint of a step: the messages of the step are added to those of
\* the thread
Checkpoint(mem, thread_id, messages) ==
    [t \in DOMAIN mem \cup {thread_id} |->
        IF t = thread_id THEN History(mem, thread_id) \o messages
        ELSE mem[t]]

\* clear_conversation_history that resets the thread
ClearConversationHistoryErases(mem, thread_id) ==
    [t \in DOMAIN mem |-> IF t = thread_id THEN <<>> ELSE mem[t]]

\* clear_conversation_history(thread_id): two log lines, the checkpointer is
\* not touched
ClearConversationHistory(mem, thread_id) == mem

\* not query or not query.strip()
IsBlank(query) == Strip(query) = <<>>

\* a function without the key k
Without(f, k) == [t \in DOMAIN f \ {k} |-> f[t]]

\* the query of the turn in progress: the content of the last user message
TurnQuery(messages) ==
    messages[CHOOSE i \in 1..Len(messages) :
                /\ messages[i].role = "user"
                /\ \A j \in (i + 1)..Len(messages) :
                      messages[j].role # "user"].content

\* what a tool returns to the tool node
ToolResult(name, coll, query, ranking, fault, api) ==
    IF name = "rag"
    THEN Rag(coll, query, ranking, <<"P", "a", "r", "i", "s">>, fault).response
    ELSE Grounding(api, RenderAnswer(AgentRawAnswer), <<>>).response

\* the tool node: one ToolMessage for every tool call of the reply, in the
\* order of the calls
ToolMessages(tool_calls, coll, query, ranking, fault, api) ==
    [k \in 1..Len(tool_calls) |->
        ToolMessage(tool_calls[k],
                    ToolResult(tool_calls[k], coll, query, ranking, fault,
                               api))]

\* Python's None where a text is expected
NoneText == <<None>>

\* the except branch of invoke: the text with str(e) is returned
InvokeErrorRaised(e) == [outcome |-> "raised", value |-> e]

InvokeError(e) ==
    [outcome |-> "returned",
     value |-> <<"An error occurred while processing your query: ">> \o e]

\* invoke returns the content of the last message of the result
InvokeReturn(messages) ==
    [outcome |-> "returned", value |-> messages[Len(messages)].content]

\* the except branch of stream: the event {"error": str(e)} is yielded last
StreamError(events, e) ==
    [outcome |-> "returned", events |-> events \o <<[error |-> e]>>]

\* stream yields the update of every step of the graph
StreamReturn(events) == [outcome |-> "returned", events |-> events]

\* the dict query_rag_agent returns after agent.invoke: success=True with
\* the text invoke returned, or its own except branch when invoke raised
QueryRagAgentResult(query, thread_id, res) ==
    IF res.outcome = "raised"
    THEN [success |-> FALSE, query |-> query, response |-> <<>>,
          error |-> <<"Error processing query: ">> \o res.value,
          thread_id |-> thread_id]
    ELSE [success |-> TRUE, query |-> query, response |-> res.value,
          error |-> NoneText, thread_id |-> thread_id]

\* the dict query_rag_agent returns for a blank query
QueryRagAgentEmpty(query, thread_id) ==
    [success |-> FALSE, query |-> query, response |-> <<>>,
     error |-> <<"Query cannot be empty">>, thread_id |-> thread_id]

\* what the entry point hands its caller for a blank query: the endpoint
\* answers 400 before it calls the service
EmptyQueryResponse(entry, query, thread_id) ==
    IF entry = "query"
    THEN [status_code |-> 400,
          content |-> [success |-> FALSE,
                       error |-> <<"Query cannot be empty">>]]
    ELSE IF entry = "query_rag_agent"
    THEN QueryRagAgentEmpty(query, thread_id)
    ELSE <<[error |-> <<"Query cannot be empty">>]>>

\* what the entry point hands its caller when _get_agent raises e
NoAgentResponse(entry, query, thread_id, e) ==
    IF entry = "stream_rag_agent"
    THEN <<[error |-> <<"Error streaming response: ">> \o e]>>
    ELSE With(QueryRagAgentResult(query, thread_id, InvokeErrorRaised(e)),
              LAMBDA result :
                 IF entry = "query"
                 THEN [status_code |-> 200, content |-> result]
                 ELSE result)

\* what the entry point hands its caller at the end of the turn; res is
\* what invoke or stream of the agent gave
ServiceResponse(entry, query, thread_id, res) ==
    IF entry = "stream_rag_agent" THEN res.events
    ELSE IF entry = "query"
    THEN [status_code |-> 200,
          content |-> QueryRagAgentResult(query, thread_id, res)]
    ELSE QueryRagAgentResult(query, thread_id, res)

\* the end of the generation of a turn: what agent.invoke or agent.stream
\* gives for the messages and events of the turn; e is str(e) of the
\* exception raised, <<>> when none was
AgentResult(entry, messages, events, e) ==
    IF entry = "stream_rag_agent"
    THEN IF e # <<>> THEN StreamError(events, e) ELSE StreamReturn(events)
    ELSE IF e # <<>> THEN InvokeError(e) ELSE InvokeReturn(messages)

\* the turn of a call: the agent instance it runs on (0 while none is
\* held), where the call stands, and what it was called with
Turn(agent, phase, entry, query) ==
    [agent |-> agent, phase |-> phase, entry |-> entry, query |-> query,
     calls |-> 0, events |-> <<>>]

\* f with key k bound to v
Bind(f, k, v) == [t \in DOMAIN f \cup {k} |-> IF t = k THEN v ELSE f[t]]

\* the update of a step that stream yields; invoke yields none
Yielded(turn, node) ==
    IF turn.entry = "stream_rag_agent"
    THEN turn.events \o <<[node |-> node]>>
    ELSE turn.events

\* the endpoint /query, query_rag_agent and stream_rag_agent, called with
\* (query, thread_id): the thread id is drawn when none is given, a blank
\* query is turned down, _get_agent hands out the instance of the module,
\* and the agent starts the turn with the user message.  When the module
\* holds no instance yet the call goes on to create one.
AgentCall(entry, query, thread_id) ==
    /\ turns < MaxTurns
    /\ \E thread \in {IF thread_id = None THEN Uuid4(turns + 1)
                       ELSE thread_id} :
          /\ thread \notin DOMAIN running
          /\ turns' = turns + 1
          /\ IF IsBlank(query)
             THEN /\ last' = [op |-> "response", entry |-> entry,
                              thread_id |-> thread_id, thread |-> thread,
                              query |-> query, started |-> FALSE,
                              exception |-> <<>>,
                              response |-> EmptyQueryResponse(entry, query,
                                                              thread)]
                  /\ UNCHANGED <<memory, running>>
             ELSE IF agentInstance = 0
             THEN /\ running' = Bind(running, thread,
                                     Turn(0, "creating", entry, query))
                  /\ last' = [op |-> "call", entry |-> entry,
                              thread_id |-> thread_id, thread |-> thread,
                              query |-> query, started |-> FALSE]
                  /\ UNCHANGED memory
             ELSE /\ memory' = [memory EXCEPT ![agentInstance] =
                                   Checkpoint(@, thread,
                                              <<HumanMessage(query)>>)]
                  /\ running' = Bind(running, thread,
                                     Turn(agentInstance, "running", entry,
                                          query))
                  /\ last' = [op |-> "call", entry |-> entry,
                              thread_id |-> thread_id, thread |-> thread,
                              query |-> query, started |-> TRUE]
    /\ UNCHANGED <<rawdata, accepted, rejected, collection, localfs,
                   onExisting, sessions, uploads, adds, indexed, agentInstance>>

\* _get_agent after it found no instance: create_langgraph_agent builds an
\* agent with a MemorySaver of its own and the module variable is set to
\* it, whatever it holds by then; e is str(e) when the construction raises
CreateAgent(thread, e) ==
    /\ thread \in DOMAIN running
    /\ running[thread].phase = "creating"
    /\ IF e # <<>>
       THEN /\ running' = Without(running, thread)
            /\ last' = [op |-> "response", entry |-> running[thread].entry,
                        thread |-> thread, query |-> running[thread].query,
                        started |-> FALSE, exception |-> <<>>,
                        create_error |-> e,
                        response |-> NoAgentResponse(running[thread].entry,
                                                     running[thread].query,
                                                     thread, e)]
            /\ UNCHANGED <<memory, agentInstance>>
       ELSE /\ memory' = Append(memory, Empty)
            /\ agentInstance' = Len(memory) + 1
            /\ running' = [running EXCEPT ![thread].phase = "returning"]
            /\ last' = [op |-> "create", thread |-> thread,
                        agent |-> Len(memory) + 1]
    /\ UNCHANGED <<rawdata, accepted, rejected, collection, localfs,
                   onExisting, sessions, uploads, adds, indexed, turns>>

\* return _agent_instance at the end of _get_agent, and the start of the
\* turn on the instance returned
StartTurn(thread) ==
    /\ thread \in DOMAIN running
    /\ running[thread].phase = "returning"
    /\ memory' = [memory EXCEPT ![agentInstance] =
                     Checkpoint(@, thread,
                                <<HumanMessage(running[thread].query)>>)]
    /\ running' = [running EXCEPT ![thread].phase = "running",
                                  ![thread].agent = agentInstance]
    /\ last' = [op |-> "call", entry |-> running[thread].entry,
                thread |-> thread, query |-> running[thread].query,
                started |-> TRUE]
    /\ UNCHANGED <<rawdata, accepted, rejected, collection, localfs,
                   onExisting, sessions, uploads, adds, indexed, turns, agentInstance>>

\* the model node of the turn on a thread: the chat model raises e (invoke
\* returns its error text, stream yields its error event), or its reply is
\* checkpointed; a reply without tool calls ends the turn
ModelStep(thread, reply, e) ==
    /\ thread \in DOMAIN running
    /\ running[thread].phase = "running"
    /\ \E turn \in {running[thread]} :
       \E messages \in {memory[turn.agent][thread]} :
          /\ messages[Len(messages)].role \in {"user", "tool"}
          /\ reply.tool_calls # <<>> => turn.calls < MaxModelCalls
          /\ IF e # <<>>
             THEN /\ running' = Without(running, thread)
                  /\ \E res \in {AgentResult(turn.entry, messages,
                                             turn.events, e)} :
                        last' = [op |-> "response", entry |-> turn.entry,
                                 thread |-> thread, query |-> turn.query,
                                 started |-> TRUE, exception |-> e,
                                 agent |-> res,
                                 response |-> ServiceResponse(turn.entry,
                                                 turn.query, thread, res)]
                  /\ UNCHANGED memory
             ELSE /\ memory' = [memory EXCEPT ![turn.agent] =
                                   Checkpoint(@, thread,
                                      <<AIMessage(reply.content,
                                                  reply.tool_calls)>>)]
                  /\ IF reply.tool_calls = <<>>
                     THEN /\ running' = Without(running, thread)
                          /\ \E res \in {AgentResult(turn.entry,
                                            memory'[turn.agent][thread],
                                            Yielded(turn, "model"), <<>>)} :
                                last' = [op |-> "response",
                                         entry |-> turn.entry,
                                         thread |-> thread,
                                         query |-> turn.query,
                                         started |-> TRUE,
                                         exception |-> <<>>, agent |-> res,
                                         response |->
                                            ServiceResponse(turn.entry,
                                               turn.query, thread, res)]
                     ELSE /\ running' =
                                [running EXCEPT
                                    ![thread].calls = @ + 1,
                                    ![thread].events = Yielded(turn, "model")]
                          /\ last' = [op |-> "model", thread |-> thread,
                                      tool_calls |-> reply.tool_calls]
    /\ UNCHANGED <<rawdata, accepted, rejected, collection, localfs,
                   onExisting, sessions, uploads, adds, indexed, turns, agentInstance>>

\* the tool node of the turn on a thread: every tool call of the last reply
\* is run, the calls of one reply side by side, and the results are
\* checkpointed
ToolStep(thread, ranking, fault, api) ==
    /\ thread \in DOMAIN running
    /\ running[thread].phase = "running"
    /\ \E turn \in {running[thread]} :
       \E messages \in {memory[turn.agent][thread]} :
          /\ messages[Len(messages)].role = "ai"
          /\ \E tool_calls \in {messages[Len(messages)].tool_calls} :
                /\ memory' = [memory EXCEPT ![turn.agent] =
                                 Checkpoint(@, thread,
                                    ToolMessages(tool_calls, collection,
                                                 TurnQuery(messages), ranking,
                                                 fault, api))]
                /\ running' = [running EXCEPT
                                  ![thread].events = Yielded(turn, "tools")]
                /\ last' = [op |-> "tools", thread |-> thread,
                            tool_calls |-> tool_calls,
                            concurrent |-> Len(tool_calls) > 1]
    /\ UNCHANGED <<rawdata, accepted, rejected, collection, localfs,
                   onExisting, sessions, uploads, adds, indexed, turns, agentInstance>>

\* clear_conversation_history(thread_id) of an agent instance
ClearConversationHistoryCall(agent, thread_id) ==
    /\ memory' = [memory EXCEPT ![agent] =
                     ClearConversationHistory(@, thread_id)]
    /\ last' = [op |-> "clear", agent |-> agent, thread |-> thread_id]
    /\ UNCHANGED <<rawdata, accepted, rejected, collection, localfs,
                   onExisting, sessions, uploads, adds, indexed, running, turns,
                   agentInstance>>

(***************************************************************************)
(* handle_uploaded_file step by step, for sessions that run it side by     *)
(* side: every session has its own DocumentPipeline and its own temporary  *)
(* file; the blob containers and the collection are shared.                *)
(***************************************************************************)
\* the call of a session at step pc
UploadCall(pc, filename, file_content, tmp_path, is_duplicate) ==
    [pc |-> pc, filename |-> filename, content |-> file_content,
     tmp_path |-> tmp_path, is_duplicate |-> is_duplicate,
     success |-> FALSE, final |-> "none"]

\* the call of a session after it returned (success, message, final)
Returned(call, success, final) ==
    [call EXCEPT !.pc = "done", !.success = success, !.final = final]

\* the session is at step pc of a call
At(s, pc) == s \in DOMAIN sessions /\ sessions[s].pc = pc

\* the except branch of handle_uploaded_file in a session: the temporary
\* file is unlinked and (False, "Error in pipeline: ...", "error") returned
UploadRaised(s) ==
    /\ localfs' = Del(localfs, sessions[s].tmp_path)
    /\ sessions' = [sessions EXCEPT ![s] = Returned(@, FALSE, "error")]

\* a session calls handle_uploaded_file: the temporary file is written
BeginUpload(s, filename, file_content) ==
    /\ uploads < MaxUploads
    /\ s \in DOMAIN sessions => sessions[s].pc = "done"
    /\ \E tmp_path \in {TmpPath(uploads + 1, Lower(Splitext(filename)[2]))} :
          /\ localfs' = Put(localfs, tmp_path, file_content)
          /\ sessions' = Bind(sessions, s,
                              UploadCall("upload", filename, file_content,
                                         tmp_path, FALSE))
    /\ uploads' = uploads + 1
    /\ UNCHANGED <<rawdata, accepted, rejected, collection, onExisting, adds,
                   indexed, last, memory, running, turns, agentInstance>>

\* step 1: upload_to_blob(tmp_path, "rawdata", filename), overwrite=True
UploadToBlob(s) ==
    /\ At(s, "upload")
    /\ rawdata' = Put(rawdata, sessions[s].filename,
                       localfs[sessions[s].tmp_path])
    /\ sessions' = [sessions EXCEPT ![s].pc = "check"]
    /\ UNCHANGED <<accepted, rejected, collection, localfs, onExisting,
                   uploads, adds, indexed, last, memory, running, turns,
                   agentInstance>>

\* step 2: is_duplicate = check_file_exists_in_accepted(filename)
CheckDuplicate(s) ==
    /\ At(s, "check")
    /\ sessions' = [sessions EXCEPT
                       ![s].pc = "copy",
                       ![s].is_duplicate =
                           CheckFileExistsInAccepted(sessions[s].filename,
                                                     accepted, FALSE)]
    /\ UNCHANGED <<rawdata, accepted, rejected, collection, localfs,
                   onExisting, uploads, adds, indexed, last, memory, running,
                   turns, agentInstance>>

\* f"{name_without_ext}_duplicate{file_ext}"
DuplicateFilename(filename) ==
    Splitext(filename)[1] \o DUPLICATE \o Lower(Splitext(filename)[2])

\* dest_blob.start_copy_from_url(source_blob.url) of the move: the staged
\* blob as it is now is copied to rejected under the duplicate name or to
\* accepted; without a staged blob the copy raises
CopyBlob(s) ==
    /\ At(s, "copy")
    /\ \E call \in {sessions[s]} :
          IF call.filename \notin DOMAIN rawdata
          THEN /\ UploadRaised(s)
               /\ UNCHANGED <<accepted, rejected>>
          ELSE /\ IF call.is_duplicate
                  THEN /\ rejected' = Put(rejected,
                                           DuplicateFilename(call.filename),
                                           rawdata[call.filename])
                       /\ UNCHANGED accepted
                  ELSE /\ accepted' = Put(accepted, call.filename,
                                           rawdata[call.filename])
                       /\ UNCHANGED rejected
               /\ sessions' = [sessions EXCEPT ![s].pc = "delete"]
               /\ UNCHANGED localfs
    /\ UNCHANGED <<rawdata, collection, onExisting, uploads, adds, indexed,
                   last, memory, running, turns, agentInstance>>

\* source_blob.delete_blob() of the move, which raises without a staged
\* blob; after it a duplicate returns (False, "Duplicate file detected!
\* ...", "rejected") and a new file goes on to process_single_file
DeleteStagedBlob(s) ==
    /\ At(s, "delete")
    /\ \E call \in {sessions[s]} :
          IF call.filename \notin DOMAIN rawdata
          THEN /\ UploadRaised(s)
               /\ UNCHANGED rawdata
          ELSE /\ rawdata' = Del(rawdata, call.filename)
               /\ IF call.is_duplicate
                  THEN /\ localfs' = Del(localfs, call.tmp_path)
                       /\ sessions' = [sessions EXCEPT
                                          ![s] = Returned(@, FALSE, "rejected")]
                  ELSE /\ sessions' = [sessions EXCEPT ![s].pc = "index"]
                       /\ UNCHANGED localfs
    /\ UNCHANGED <<accepted, rejected, collection, onExisting, uploads, adds,
                   indexed, last, memory, running, turns, agentInstance>>

\* step 4: process_single_file(tmp_path), os.unlink(tmp_path) and the return
\* with the final namespace "accepted"
IndexFile(s) ==
    /\ At(s, "index")
    /\ \E call \in {sessions[s]} :
       \E psf \in {ProcessSingleFile(collection, localfs, call.tmp_path,
                                     "none", Now, onExisting)} :
          /\ collection' = psf.coll
          /\ localfs' = Del(localfs, call.tmp_path)
          /\ sessions' = [sessions EXCEPT
                             ![s] = Returned(@, psf.success, "accepted")]
          /\ indexed' =
                IF psf.success
                THEN [t \in DOMAIN indexed \cup {call.tmp_path} |->
                        IF t = call.tmp_path
                        THEN [file |-> call.filename,
                              chunks |-> {<<k, call.content[k]>> :
                                            k \in 1..Len(call.content)},
                              ids |-> IdsOf(RecordsOfSource(psf.coll,
                                                            call.tmp_path))]
                        ELSE indexed[t]]
                ELSE indexed
    /\ UNCHANGED <<rawdata, accepted, rejected, onExisting, uploads, adds,
                   last, memory, running, turns, agentInstance>>

\* the sessions that upload side by side
Sessions == {"S1", "S2"}

\* two sessions uploading a file named a.pdf, each with a content of its
\* own or both with the same, every step of one between the steps of the
\* other
NextSessions ==
    \E s \in Sessions :
       \/ \E file_content \in UploadContents :
             BeginUpload(s, <<"a">> \o PDF, file_content)
       \/ UploadToBlob(s)
       \/ CheckDuplicate(s)
       \/ CopyBlob(s)
       \/ DeleteStagedBlob(s)
       \/ IndexFile(s)

\* the document lists of direct calls: the chunks of one local file, or of
\* two distinct local files one after the other
DocumentLists ==
    {ChunksOfFile(s, c) : s \in LocalSources, c \in Contents}
    \cup {ChunksOfFile(p[1], c1) \o ChunksOfFile(p[2], c2) :
            p \in {q \in LocalSources \X LocalSources : q[1] # q[2]},
            c1 \in Contents \ {<<>>}, c2 \in Contents \ {<<>>}}

\* the uploads of the sessions
NextPipeline ==
    \E filename \in UploadNames, file_content \in UploadContents,
       listFails \in BOOLEAN, fault \in Faults :
       HandleUploadedFile(filename, file_content, listFails, fault)

\* the direct calls of the vector store manager
NextStore ==
    \E documents \in DocumentLists, batch_size \in BatchSizes,
       failBatch \in 0..2 :
       \E nvec \in {0, Len(documents), Len(documents) + 1} :
          AddDocumentsCall(documents, nvec, batch_size, failBatch)

\* the files handed to process_single_file: the local sources and /d/a.pdf
ProcessPaths == LocalSources \cup { <<"/", "d", "/", "a">> \o PDF }

\* the stage that fails during one process_single_file call
ProcessFaults == {"none", "extract", "chunk", "embed", "add"}

\* the direct calls of process_single_file: on a file that is there, with
\* every content and fault, and on a file that is not there
NextProcess ==
    \E file_path \in ProcessPaths :
       \/ \E content \in Contents, fault \in ProcessFaults :
             ProcessSingleFileCall(file_path, content, TRUE, fault)
       \/ ProcessSingleFileCall(file_path, <<>>, FALSE, "none")

\* uploads of a.pdf and ba.pdf whose store stage writes one batch or two and
\* fails at the first batch, at the second, or not at all
NextPartial ==
    \E filename \in { <<"a">> \o PDF, <<"b", "a">> \o PDF },
       file_content \in {<<T1>>, BigContent},
       fault \in {"none", "add", "add2"} :
       HandleUploadedFile(filename, file_content, FALSE, fault)

\* indexing the files of a folder and deleting by source: the direct calls
\* that index (one vector per chunk, the default batch size, a backend that
\* answers) and the calls of delete_by_source
NextDelete ==
    \/ \E documents \in DocumentLists :
          AddDocumentsCall(documents, Len(documents), DefaultBatchSize, 0)
    \/ \E source_path \in DeletePaths, fails \in BOOLEAN :
          DeleteBySourceCall(source_path, fails)

\* the folders handed to sync_with_filesystem: /tmp and /d
ActiveFolders == { <<"/", "t", "m", "p">>, <<"/", "d">> }

\* uploads whose storage calls succeed (the indexing may fail), and
\* the consistency sweep
NextIngest ==
    \E filename \in IngestNames, file_content \in UploadContents,
       fault \in {"none", "embed"} :
       HandleUploadedFile(filename, file_content, FALSE, fault)

NextSync ==
    \/ NextIngest
    \/ \E active_folder \in ActiveFolders, fails \in BOOLEAN :
          SyncWithFilesystemCall(active_folder, fails)

\* uploads and retrieval
NextRag ==
    \/ NextIngest
    \/ \E fault \in RagFaults, ranking \in Rankings(collection, TopK) :
          \E answer \in IF fault = "none" THEN Answers ELSE {<<>>} :
             RagCall(<<"q", "1">>, ranking, answer, fault)

\* the calls of the grounding tool
NextGrounding ==
    \/ \E raw \in RawAnswers :
          \E citations \in CitationListsWith(raw) :
             GroundingCall(<<"q", "1">>, "ok", raw, citations)
    \/ \E api \in ApiOutcomes \ {"ok"} :
          GroundingCall(<<"q", "1">>, api,
                        [body |-> <<"Paris">>, links |-> <<>>,
                         numbered |-> FALSE], <<>>)

\* the entry points: the endpoint /query of the API, and the two functions
\* of the agent service
Entries == {"query", "query_rag_agent", "stream_rag_agent"}

\* str(e) of the exception a call of the chat model raises, and of the one
\* the construction of the agent raises
ModelErrors == {<<"RateLimitError">>}
CreateErrors == {<<"ValidationError">>}

\* the thread ids in use: those callers pass and those drawn so far
Threads ==
    ThreadIds \cup UNION {DOMAIN memory[i] : i \in 1..Len(memory)}

\* one indexed upload, and the turns of the agent on one thread, with every
\* reply the chat model can give
NextAgent ==
    \/ HandleUploadedFile(<<"a">> \o PDF, <<T1>>, FALSE, "none")
    \/ \E entry \in {"query_rag_agent", "stream_rag_agent"} :
          AgentCall(entry, <<"q", "1">>, "A")
    \/ \E thread \in DOMAIN running : CreateAgent(thread, <<>>)
    \/ \E thread \in DOMAIN running : StartTurn(thread)
    \/ \E thread \in DOMAIN running, reply \in ModelReplies,
          e \in {<<>>} \cup ModelErrors :
          ModelStep(thread, reply, e)
    \/ \E thread \in DOMAIN running, ranking \in Rankings(collection, TopK) :
          ToolStep(thread, ranking, "none", "ok")

\* the turns of the agent on given and drawn threads over an empty knowledge
\* base, and the calls of clear_conversation_history on the instance the
\* module holds
NextMemory ==
    \/ \E thread_id \in {"A", None} :
          AgentCall("query_rag_agent", <<"q", "1">>, thread_id)
    \/ \E thread \in DOMAIN running : CreateAgent(thread, <<>>)
    \/ \E thread \in DOMAIN running : StartTurn(thread)
    \/ \E thread \in DOMAIN running,
          reply \in {r \in ModelReplies : r.tool_calls \in {<<>>, <<"rag">>}} :
          ModelStep(thread, reply, <<>>)
    \/ \E thread \in DOMAIN running :
          ToolStep(thread, <<>>, "none", "ok")
    \/ \E agent \in {agentInstance} \ {0} :
          ClearConversationHistoryCall(agent, "A")

\* the calls of the three entry points on one given thread and on drawn
\* threads, with blank queries, an agent whose construction may fail and a
\* chat model whose calls may fail
NextService ==
    \/ \E entry \in Entries, query \in {<<"q", "1">>, <<" ">>},
          thread_id \in {"A", None} :
          AgentCall(entry, query, thread_id)
    \/ \E thread \in DOMAIN running, e \in {<<>>} \cup CreateErrors :
          CreateAgent(thread, e)
    \/ \E thread \in DOMAIN running : StartTurn(thread)
    \/ \E thread \in DOMAIN running, e \in {<<>>} \cup ModelErrors,
          reply \in {r \in ModelReplies : r.tool_calls \in {<<>>, <<"rag">>}} :
          ModelStep(thread, reply, e)
    \/ \E thread \in DOMAIN running :
          ToolStep(thread, <<>>, "none", "ok")

\* the turns that invoke and stream run one after the other on one thread,
\* with a chat model whose calls may fail
NextGeneration ==
    \/ \E entry \in {"query_rag_agent", "stream_rag_agent"} :
          AgentCall(entry, <<"q", "1">>, "A")
    \/ \E thread \in DOMAIN running : CreateAgent(thread, <<>>)
    \/ \E thread \in DOMAIN running : StartTurn(thread)
    \/ \E thread \in DOMAIN running, e \in {<<>>} \cup ModelErrors,
          reply \in {r \in ModelReplies : r.tool_calls \in {<<>>, <<"rag">>}} :
          ModelStep(thread, reply, e)
    \/ \E thread \in DOMAIN running :
          ToolStep(thread, <<>>, "none", "ok")

\* calls of the agent service from sessions that run side by side, the
\* first ones while the module holds no agent yet
NextSingleton ==
    \/ \E entry \in {"query_rag_agent", "stream_rag_agent"},
          thread_id \in {"A", None} :
          AgentCall(entry, <<"q", "1">>, thread_id)
    \/ \E thread \in DOMAIN running : CreateAgent(thread, <<>>)
    \/ \E thread \in DOMAIN running : StartTurn(thread)
    \/ \E thread \in DOMAIN running,
          reply \in {r \in ModelReplies : r.tool_calls = <<>>} :
          ModelStep(thread, reply, <<>>)

Next ==
    NextPipeline \/ NextStore \/ NextDelete \/ NextSync \/ NextRag
       \/ NextGrounding \/ NextAgent \/ NextMemory \/ NextService
       \/ NextGeneration \/ NextSingleton \/ NextProcess
       \/ NextPartial \/ NextSessions

\* the whole program
Spec == Init /\ [][Next]_vars

\* the document pipeline alone, and the vector store manager alone: the two
\* parts of Spec, each explored to its own bound
SpecPipeline == Init /\ [][NextPipeline]_vars
SpecAgent == Init /\ [][NextAgent]_vars
SpecMemory == Init /\ [][NextMemory]_vars
SpecService == Init /\ [][NextService]_vars
SpecGeneration == Init /\ [][NextGeneration]_vars
SpecSingleton == Init /\ [][NextSingleton]_vars

SpecStore == Init /\ [][NextStore]_vars

\* uploads whose store stage fails between two batches
SpecPartial == Init /\ [][NextPartial]_vars

\* handle_uploaded_file run by two sessions side by side
SpecSessions == Init /\ [][NextSessions]_vars

\* process_single_file alone
SpecProcess == Init /\ [][NextProcess]_vars

\* indexing and deletion by source
SpecDelete == Init /\ [][NextDelete]_vars

\* uploads and the consistency sweep
SpecSync == Init /\ [][NextSync]_vars

\* uploads and retrieval
SpecRag == Init /\ [][NextRag]_vars

\* the grounding tool
SpecGrounding == Init /\ [][NextGrounding]_vars

(***************************************************************************)
(* Claims about handle_uploaded_file, under SpecPipeline.                  *)
(***************************************************************************)
\* a step that is one call of handle_uploaded_file
IsUpload == uploads' = uploads + 1

\* the stages of indexing and the calls to external services
IndexingCalls == {"extract", "chunk", "embed", "add"}
ServiceCalls == {"upload", "list", "copy", "delete", "embed", "add"}

\* the calls a call made, as a set
CallsOf(l) == {l.calls[k] : k \in 1..Len(l.calls)}

\* how often a call occurs among the calls made
CountOf(l, c) == Cardinality({k \in 1..Len(l.calls) : l.calls[k] = c})

\* C1: in every call of handle_uploaded_file the uploaded file is written to
\* at most one of the namespaces accepted and rejected, a single move is
\* made, the final namespace returned is accepted, rejected or error, and
\* success=True comes only with accepted.
C1_OneDecision ==
    [][IsUpload =>
        /\ ~(accepted' # accepted /\ rejected' # rejected)
        /\ Cardinality(last'.placed) <= 1
        /\ ("accepted" \notin last'.placed => accepted' = accepted)
        /\ ("rejected" \notin last'.placed => rejected' = rejected)
        /\ CountOf(last', "copy") <= 1
        /\ last'.final \in {"accepted", "rejected", "error"}
        /\ (last'.success => last'.final = "accepted")]_vars

\* C1 witness: a second file is accepted and indexed, and nothing is rejected
C1_Witness ==
    /\ last.op = "upload"
    /\ last.success
    /\ last.final = "accepted"
    /\ last.placed = {"accepted"}
    /\ Cardinality(DOMAIN accepted) = 2
    /\ rejected = Empty

\* the name N with _duplicate inserted before its extension
WithDuplicateMarker(name) ==
    Splitext(name)[1] \o DUPLICATE \o Splitext(name)[2]

\* C2: once a file named N is in accepted, a later upload named N (whose
\* storage calls all succeed) is rejected: it lies in rejected under N with
\* _duplicate before the extension, the call returns (False, a message naming
\* that file, "rejected"), and the accepted blob and the index are unchanged.
C2_SameNameRejected ==
    [][(/\ IsUpload
        /\ last'.filename \in DOMAIN accepted
        /\ last'.fault \notin {"upload", "copy", "delete"}
        /\ ~last'.listFails)
       => /\ last'.final = "rejected"
          /\ ~last'.success
          /\ Lower(last'.message.name) =
                 Lower(WithDuplicateMarker(last'.filename))
          /\ last'.message.name \in DOMAIN rejected'
          /\ rejected'[last'.message.name] = last'.content
          /\ accepted' = accepted
          /\ collection' = collection]_vars

\* the name compared by the specified duplicate check: the _duplicate marker
\* removed, case folded
CanonicalName(name) == Lower(Strip(Remove(name, DUPLICATE)))

\* C3: when the listing succeeds, check_file_exists_in_accepted reports a
\* duplicate exactly when an accepted entry's name matches the uploaded name,
\* the _duplicate marker ignored and case folded; a name that merely contains
\* or is contained in an accepted name is not flagged.
C3_DuplicateIffNameMatches ==
    [][(IsUpload /\ "list" \in CallsOf(last') /\ ~last'.listFails)
       => (last'.is_duplicate <=>
             \E blob_file \in DOMAIN accepted :
                CanonicalName(blob_file) = CanonicalName(last'.filename))]_vars

\* C4: a call that takes the duplicate branch invokes none of extract, chunk,
\* embed, add and leaves the vector store's records unchanged.
C4_DuplicateNotIndexed ==
    [][(IsUpload /\ last'.is_duplicate)
       => /\ collection' = collection
          /\ CallsOf(last') \cap IndexingCalls = {}]_vars

\* C4 witness: a duplicate was rejected while the store holds records
C4_Witness ==
    /\ last.op = "upload"
    /\ last.is_duplicate
    /\ last.final = "rejected"
    /\ collection # {}

\* C5: after every call of handle_uploaded_file neither the temporary file
\* nor the blob staged in rawdata remains.
C5_StagingCleaned ==
    last.op = "upload"
        => /\ last.tmp_path \notin DOMAIN localfs
           /\ last.filename \notin DOMAIN rawdata

\* process_single_file fails for this call: a stage fails, or the extension
\* is not supported
IndexingFails(l) ==
    \/ l.fault \in {"extract", "chunk", "embed", "add"}
    \/ Lower(Splitext(l.filename)[2]) \notin SupportedExtensions

\* C6: when a new file was moved to accepted and process_single_file fails,
\* the file stays in accepted with its content, nothing goes to rejected, and
\* the call returns success=False, final namespace "accepted" and the message
\* that the file was moved to accepted but processing failed.
C6_AcceptedButNotIndexed ==
    [][(IsUpload /\ "extract" \in CallsOf(last') /\ IndexingFails(last'))
       => /\ last'.filename \in DOMAIN accepted'
          /\ accepted'[last'.filename] = last'.content
          /\ rejected' = rejected
          /\ ~last'.success
          /\ last'.final = "accepted"
          /\ last'.message.kind =
                 "File moved to accepted but RAG processing failed"]_vars

\* C6 witness: the embedder failed on a new, supported file
C6_Witness ==
    /\ last.op = "upload"
    /\ last.fault = "embed"
    /\ "embed" \in CallsOf(last)
    /\ last.filename \in DOMAIN accepted
    /\ ~last.success

\* C7: an upload whose extension is not supported makes no call to blob
\* storage, the embedder or the vector store, and is not in accepted.
C7_UnsupportedRejectedEarly ==
    (last.op = "upload"
     /\ Lower(Splitext(last.filename)[2]) \notin SupportedExtensions)
        => /\ CallsOf(last) \cap ServiceCalls = {}
           /\ last.filename \notin DOMAIN accepted

(***************************************************************************)
(* Claims about add_documents, under SpecStore.                            *)
(***************************************************************************)
\* a step that is one direct call of add_documents
IsAdd == adds' = adds + 1

\* C8: when a file whose chunks were indexed before is indexed again with
\* identical content, alone or together with other files, the ids computed
\* for its chunks are those of the earlier indexing and the store holds no
\* more records of that file than before.
C8_ReindexSameIds ==
    [][(IsAdd /\ Len(last'.documents) = Len(last'.embeddings))
       => \A s \in SourcesIn(last'.documents) \cap DOMAIN indexed :
             indexed[s].chunks = ChunkTextsOf(last'.documents, s)
                => /\ IdsFor(last'.documents, s) = indexed[s].ids
                   /\ IdsOf(RecordsOfSource(collection', s))
                          = IdsOf(RecordsOfSource(collection, s))]_vars

\* C9: add_documents upserts: when it returns and the id computed for a chunk
\* was already stored, the stored record with that id has the text and the
\* vector supplied by this call (the part of the claim that does not rest on
\* the time stamp in the metadata).
C9_Upsert ==
    [][(IsAdd /\ last'.outcome = "returned"
              /\ Len(last'.documents) = Len(last'.embeddings))
       => \A k \in 1..Len(last'.documents) :
             ComputedIds(last'.documents)[k] \in IdsOf(collection)
                => \E r \in collection' :
                      /\ r.id = ComputedIds(last'.documents)[k]
                      /\ r.document = last'.documents[k].page_content
                      /\ r.embedding = last'.embeddings[k]]_vars

\* C10: whenever len(documents) # len(embeddings), also when one of the two
\* lists is empty, add_documents raises and writes nothing.
C10_MismatchRaises ==
    [][(IsAdd /\ Len(last'.documents) # Len(last'.embeddings))
       => /\ last'.outcome = "raised"
          /\ collection' = collection]_vars

\* a step that is one direct call of delete_by_source
IsDelete == last'.op = "delete" /\ adds' = adds /\ uploads' = uploads

IsSync == last'.op = "sync" /\ adds' = adds /\ uploads' = uploads

\* the file a stored source was indexed for is still in the active set: the
\* blob in the accepted container, or the local file
FilePresent(s) ==
    \/ indexed[s].file \in DOMAIN accepted
    \/ indexed[s].file \in DOMAIN localfs

\* C12: a sync that returns deletes the records of exactly the sources whose
\* file is no longer present and keeps the records of the others; the records
\* indexed by handle_uploaded_file for a file still in accepted survive.
C12_SyncKeepsPresent ==
    [][(IsSync /\ last'.outcome = "returned")
       => \A s \in DOMAIN indexed :
             /\ FilePresent(s)
                   => RecordsOfSource(collection', s)
                         = RecordsOfSource(collection, s)
             /\ ~FilePresent(s) => RecordsOfSource(collection', s) = {}]_vars

(***************************************************************************)
(* Claims about rag, under SpecRag.                                        *)
(***************************************************************************)
\* the first position from i on at which text holds the string tok (one past
\* the end when there is none)
RECURSIVE IndexFrom(_, _, _)
IndexFrom(text, tok, i) ==
    IF i > Len(text) \/ text[i] = tok THEN i ELSE IndexFrom(text, tok, i + 1)

RECURSIVE SourcesFrom(_, _)
\* the sources list read back from a response: for every line
\* "* [name](url) (Similarity: s)" the name and the url, in order
SourcesFrom(text, i) ==
    IF i > Len(text) THEN <<>>
    ELSE IF text[i] # "* [" THEN SourcesFrom(text, i + 1)
    ELSE LET j == IndexFrom(text, "](", i + 1)
             k == IndexFrom(text, ") (Similarity: ", j + 1)
         IN  <<[filename |-> SubSeq(text, i + 1, j - 1),
                url |-> SubSeq(text, j + 1, k - 1)]>>
             \o SourcesFrom(text, k + 1)

SourcesOf(response) == SourcesFrom(response, 1)

\* rag produced an answer from retrieved chunks
RagAnswered ==
    last.op = "rag" /\ last.outcome = "returned" /\ last.fault = "none"
       /\ last.results # <<>>

\* C13: rag never raises; it returns the sentinel exactly when the similarity
\* search returned and found nothing, as it does against an empty store; an
\* answer or an error text is never equal to the sentinel.
C13_SentinelIffNoResults ==
    last.op = "rag"
       => /\ last.outcome = "returned"
          /\ last.response = Sentinel
                <=> (last.fault \notin {"embed", "query"} /\ last.results = <<>>)
          /\ (collection = {} /\ last.fault \notin {"embed", "query"})
                => last.response = Sentinel

\* C13 witness: with records stored, the language model answered with the
\* very text of the sentinel
C13_Witness ==
    /\ RagAnswered
    /\ last.answer = Sentinel
    /\ last.response # Sentinel

C15_CitationNamesUpload ==
    RagAnswered
       => \A k \in 1..Len(last.results) :
             last.results[k].metadata.source \in DOMAIN indexed
                => LET N == indexed[last.results[k].metadata.source].file
                   IN  /\ last.results[k].metadata.source_filename = N
                       /\ \E i \in 1..Len(SourcesOf(last.response)) :
                              /\ SourcesOf(last.response)[i].filename = N
                              /\ SourcesOf(last.response)[i].url = BlobUrl(N)

(***************************************************************************)
(* Claims about grounding, under SpecGrounding.                            *)
(***************************************************************************)
\* C16: grounding never raises, and whenever the call of the web-answer API
\* fails (no key, timeout, connection error, status other than 200, or a
\* malformed body) it returns the fixed "unable to retrieve" message.
C16_UnableOnUpstreamFailure ==
    last.op = "grounding"
       => /\ last.outcome = "returned"
          /\ last.api # "ok" => last.response = Unable

\* how many headings of a sources section a text holds
CountSourcesHeadings(text) ==
    Cardinality({i \in 1..Len(text) :
                   text[i] \in SourcesLabels \cup {"**[books] Sources:**"}})

\* C17: when the web answer holds a sources section in the required format,
\* the output holds a sources section exactly once: the header, the answer
\* without its sources section, and the one list of the extracted sources.
C17_SourcesSectionOnce ==
    (last.op = "grounding" /\ last.api = "ok" /\ last.raw.links # <<>>)
       => /\ CountSourcesHeadings(last.response) = 1
          /\ last.response =
                GroundingResponse(StripWs(last.raw.body),
                    [i \in 1..Len(last.raw.links) |->
                        NumberedLink(i, last.raw.links[i].title,
                                     last.raw.links[i].url)])

RECURSIVE SplitLines(_, _)
\* the lines of a text from position i on
SplitLines(text, i) ==
    IF i > Len(text) THEN <<>>
    ELSE LET e == FirstOf(text, {"\n"}, i)
         IN  <<SubSeq(text, i, e - 1)>> \o SplitLines(text, e + 1)

\* the entries of the sources list of an output of grounding: the lines after
\* the heading of the sources block
SourcesListOf(response) ==
    LET h == FirstOf(response, {"**[books] Sources:**"}, 1)
    IN  SplitLines(response, h + 2)

\* an entry is a numbered markdown link: [n] [title](url)
IsMarkdownLink(entry) ==
    LET j == FirstOf(entry, {"]"}, 6)
    IN  /\ Len(entry) >= 10
        /\ entry[1] = "[" /\ entry[3] = "]" /\ entry[4] = " " /\ entry[5] = "["
        /\ j > 6 /\ j + 2 < Len(entry)
        /\ entry[j + 1] = "(" /\ entry[j + 2] \in Schemes
        /\ FirstOf(entry, {")"}, j + 2) = Len(entry)

\* C18: whatever the citations array holds, every entry of the sources list
\* in the output of grounding is a markdown link [title](url).
C18_EveryEntryIsLink ==
    (last.op = "grounding" /\ last.api = "ok")
       => \A k \in 1..Len(SourcesListOf(last.response)) :
             IsMarkdownLink(SourcesListOf(last.response)[k])

(***************************************************************************)
(* Claims about the agent, under SpecAgent and SpecMemory.                 *)
(***************************************************************************)
\* the message at position p of a history asks for the tool
Calls(h, p, name) ==
    \E k \in 1..Len(h[p].tool_calls) : h[p].tool_calls[k] = name

\* the position of the user message that opens the turn of position p
TurnStart(h, p) ==
    CHOOSE i \in 1..p :
       h[i].role = "user" /\ \A j \in (i + 1)..p : h[j].role # "user"

\* position p holds a result of rag that is the sentinel
IsSentinelResult(h, p) ==
    h[p].role = "tool" /\ h[p].name = "rag" /\ h[p].content = Sentinel

\* position r holds the final answer of the turn of position p < r
IsFinalOfTurn(h, p, r) ==
    /\ h[r].role = "ai" /\ h[r].tool_calls = <<>>
    /\ TurnStart(h, r) = TurnStart(h, p)

\* C19: in every turn grounding is invoked if and only if rag was invoked
\* earlier in the turn and returned the sentinel; the two tools are never
\* invoked by one reply (side by side), and never grounding before rag.
C19_GroundingIffSentinel ==
    \A i \in 1..Len(memory) :
       \A t \in DOMAIN memory[i] :
          \A p \in 1..Len(memory[i][t]) :
             /\ Calls(memory[i][t], p, "grounding")
                   => /\ ~Calls(memory[i][t], p, "rag")
                      /\ \E q \in TurnStart(memory[i][t], p)..(p - 1) :
                            IsSentinelResult(memory[i][t], q)
             /\ IsSentinelResult(memory[i][t], p)
                   => \A r \in (p + 1)..Len(memory[i][t]) :
                         IsFinalOfTurn(memory[i][t], p, r)
                            => \E q \in (p + 1)..(r - 1) :
                                  Calls(memory[i][t], q, "grounding")

\* a is a prefix of b
IsPrefix(a, b) == Len(a) <= Len(b) /\ SubSeq(b, 1, Len(a)) = a

IsErrorEvent(event, e) == "error" \in DOMAIN event /\ event.error = e

\* C21: invoke and stream never let an exception out: when the generation
\* raises, invoke returns a text that holds the message of the exception and
\* stream yields {"error": message} as its last event; otherwise the caller
\* gets the answer, and the events of the steps without an error event.
C21_NoExceptionEscapes ==
    (last.op = "response" /\ last.started)
       => /\ last.agent.outcome = "returned"
          /\ last.entry = "stream_rag_agent"
                => IF last.exception # <<>>
                   THEN /\ last.agent.events # <<>>
                        /\ IsErrorEvent(
                              last.agent.events[Len(last.agent.events)],
                              last.exception)
                   ELSE /\ last.agent.events # <<>>
                        /\ \A k \in 1..Len(last.agent.events) :
                              "error" \notin DOMAIN last.agent.events[k]
          /\ last.entry # "stream_rag_agent"
                => IF last.exception # <<>>
                   THEN IsSubstr(last.exception, last.agent.value)
                   ELSE last.agent.value = <<"P", "a", "r", "i", "s">>

\* the chat model raised in the second call of a streamed turn, after the
\* events of the first reply and of its tool; the turn before, run on the
\* same thread, ended with an exception in its first call
C21_Witness ==
    /\ last.op = "response" /\ last.started
    /\ last.exception # <<>>
    /\ last.entry = "stream_rag_agent"
    /\ Len(last.agent.events) = 3
    /\ \E i \in 1..Len(memory) :
          \E k \in 1..Len(History(memory[i], "A")) :
             /\ memory[i]["A"][k].role = "user" /\ k > 1
             /\ memory[i]["A"][k - 1].role = "user"

\* C22: every response of the endpoint /query carries a boolean success and
\* the thread id as a string, the one supplied or the one drawn; a blank
\* query is answered with success=False and the agent is not invoked.
C22_ResponseCarriesThreadId ==
    (last.op = "response" /\ last.entry = "query")
       => /\ "success" \in DOMAIN last.response.content
          /\ last.response.content.success \in BOOLEAN
          /\ "thread_id" \in DOMAIN last.response.content
          /\ last.response.content.thread_id = last.thread
          /\ IsBlank(last.query)
                => ~last.response.content.success /\ ~last.started

\* C28: query_rag_agent returns success=True only when the agent produced
\* an answer and the generation raised nothing; when the generation raised,
\* success is False and the error field holds a text.
C28_SuccessMeansAnswered ==
    (last.op = "response" /\ last.entry = "query_rag_agent")
       => /\ last.response.success
                => last.started /\ last.exception = <<>>
          /\ last.exception # <<>>
                => /\ ~last.response.success
                   /\ last.response.error \notin {NoneText, <<>>}

(***************************************************************************)
(* Claim about the agent instance of the module, under SpecSingleton.      *)
(***************************************************************************)
\* C30: however many first calls run side by side, one agent instance, and
\* so one conversation memory, is created, and a later turn on a thread id
\* finds every message recorded under that thread id.
C30_OneAgentInstance ==
    /\ Len(memory) <= 1
    /\ agentInstance # 0
          => \A i \in 1..Len(memory) :
                \A t \in DOMAIN memory[i] :
                   IsPrefix(memory[i][t],
                            History(memory[agentInstance], t))

(***************************************************************************)
(* Claims about process_single_file, under SpecProcess.                    *)
(***************************************************************************)
\* the stages of process_single_file in their order
StageOrder == <<"extract", "chunk", "embed", "add">>

\* the last call was process_single_file
IsProcess == last.op = "process"

\* what the extractor returned in the last call
Extracted ==
    ExtractFromFile(localfs, last.file_path, last.fault = "extract")

\* C23: process_single_file runs Extract, Chunk, Embed, Store in this order,
\* each at most once and none after a stage that failed; an empty list from
\* the extractor gives (False, "No content extracted from file", 0) with
\* none of Chunk, Embed, Store run; it returns a result on every input, and
\* whenever success is False the count returned is 0.
C23_StagesInOrder ==
    IsProcess
       => /\ IsPrefix(last.stages, StageOrder)
          /\ last.stages # <<>>
          /\ last.success \in BOOLEAN
          /\ last.success => last.stages = StageOrder
          /\ \A k \in 1..Len(last.stages) :
                (last.fault = last.stages[k] /\ ~last.success)
                   => k = Len(last.stages)
          /\ (last.fault \in {"extract", "chunk"}
                /\ last.fault \in {last.stages[k] : k \in 1..Len(last.stages)})
                => ~last.success
          /\ (last.fault \in {"embed", "add"} /\ Extracted.ok
                /\ ChunkDocuments(Extracted.documents) # <<>>)
                => ~last.success
          /\ (Extracted.ok /\ Extracted.documents = <<>>)
                => /\ ~last.success
                   /\ last.message.kind = "No content extracted from file"
                   /\ last.added = 0
                   /\ last.stages = <<"extract">>
                   /\ collection = last.before
          /\ ~last.success => last.added = 0

\* a PDF without pages was processed with no stage failing
C23_Witness ==
    /\ IsProcess /\ last.exists /\ last.fault = "none"
    /\ Extracted.ok /\ Extracted.documents = <<>>
    /\ last.message.kind = "No content extracted from file"

\* C27: process_single_file returns success=True only if it stored at least
\* one record; a file that yields segments and no chunks, like an empty text
\* file, is not reported as processed.
C27_SuccessMeansStored ==
    IsProcess
       => /\ last.success => last.added >= 1
          /\ (Extracted.ok /\ Extracted.documents # <<>>
                /\ ChunkDocuments(Extracted.documents) = <<>>)
                => ~last.success

(***************************************************************************)
(* Claim about a store stage that fails between batches, under SpecPartial. *)
(***************************************************************************)
\* the last call was an upload whose add_documents raised at its second
\* batch
FailedAtSecondBatch ==
    /\ last.op = "upload" /\ last.fault = "add2"
    /\ Len(last.content) > DefaultBatchSize
    /\ "add" \in {last.calls[k] : k \in 1..Len(last.calls)}

\* the ids add_documents computes for the first batch of the last upload
FirstBatchIds ==
    {GenerateDocId(last.content[k], last.tmp_path, k - 1) :
        k \in 1..DefaultBatchSize}

\* C24: when add_documents fails after it wrote a batch, the records of
\* that batch stay in the store, process_single_file answers (False, error
\* message, 0), and handle_uploaded_file reports the file as accepted with
\* success False; nothing is deleted to compensate.
C24_NoRollback ==
    [][FailedAtSecondBatch'
         => /\ collection \subseteq collection'
            /\ FirstBatchIds' \subseteq IdsOf(collection')
            /\ ~last'.success
            /\ last'.final = "accepted"
            /\ last'.filename \in DOMAIN accepted'
            /\ last'.message.kind
                  = "File moved to accepted but RAG processing failed"
            /\ last'.message.detail[1] = "Error processing file"
            /\ last'.message.added = 0
            /\ last'.calls[Len(last'.calls)] = "unlink"
            /\ last'.calls[Len(last'.calls) - 1] = "add"]_vars

\* an upload failed at its second batch and left the first batch in a store
\* that held none of it before
C24_Witness ==
    /\ FailedAtSecondBatch
    /\ FirstBatchIds \subseteq IdsOf(collection)
    /\ Cardinality(RecordsOfSource(collection, last.tmp_path))
          = DefaultBatchSize

(***************************************************************************)
(* Claims about sequences of uploads, under SpecPipeline.                  *)
(***************************************************************************)
\* C25: once a file is in accepted under a name, no later upload of that
\* name replaces the content of the accepted blob or adds records to the
\* store, also when listing accepted fails during the duplicate check.
C25_AcceptedNameIsFinal ==
    [][(last'.op = "upload" /\ uploads' # uploads
          /\ last'.filename \in DOMAIN accepted)
         => /\ last'.filename \in DOMAIN accepted'
            /\ accepted'[last'.filename] = accepted[last'.filename]
            /\ collection' = collection]_vars

\* C26: an upload that returns the final namespace "error" has put the file
\* in neither accepted nor rejected and has added no record to the store,
\* also when the copy to the destination succeeded and the deletion of the
\* staged blob failed.
C26_ErrorLeavesNothing ==
    [][(last'.op = "upload" /\ uploads' # uploads /\ last'.final = "error")
         => /\ accepted' = accepted
            /\ rejected' = rejected
            /\ collection' = collection]_vars

(***************************************************************************)
(* Claim about uploads that run side by side, under SpecSessions.          *)
(***************************************************************************)
\* the sessions whose call returned with the file accepted and indexed
AcceptedAndIndexed ==
    {s \in DOMAIN sessions :
        /\ sessions[s].pc = "done" /\ sessions[s].final = "accepted"
        /\ sessions[s].success}

\* every session has returned from its call
AllReturned ==
    /\ DOMAIN sessions = Sessions
    /\ \A s \in Sessions : sessions[s].pc = "done"

\* C29: when two sessions run handle_uploaded_file side by side for the
\* same file name, in every interleaving of their steps at most one of the
\* uploads is accepted and indexed, and the blob in accepted under that name
\* holds the content of the upload whose chunks were indexed.
C29_OneUploadWins ==
    (AllReturned /\ uploads = Cardinality(Sessions))
       => /\ Cardinality(AcceptedAndIndexed) <= 1
          /\ \A s \in AcceptedAndIndexed :
                /\ sessions[s].filename \in DOMAIN accepted
                /\ accepted[sessions[s].filename] = sessions[s].content

====
